---------------------------- MODULE Spec2Model ----------------------------
(***************************************************************************)
(* HEDGE-2 SCI board firmware: the circular sample buffer                  *)
(* (lib/core/buffer.py), the acquisition and communications tasks          *)
(* (main.py) and the CLI commands that touch the buffer (lib/comms/cli.py).*)
(*                                                                         *)
(* The specifications share the variables:                                 *)
(*   SpecBuffer    the Buffer class used by one caller, call after call    *)
(*                 (add_sample and clear with drawn arguments);            *)
(*   SpecCodec     the same caller with cmd_dump's loop and cmd_stream's   *)
(*                 write applied to what the Buffer returns;               *)
(*   Spec          the two threads main() starts, statement by statement   *)
(*                 where they touch shared state (SpecDump, SpecSelfTest:  *)
(*                 with one command typed; FairSpec: with fair threads);   *)
(*   SpecCal       the calibration commands, the file lib/calibration.py   *)
(*                 they rewrite, the restart and a loss of power;          *)
(*   SpecCrc       crc16 and buffer_crc16 (lib/utils.py) applied to drawn  *)
(*                 lists of byte strings;                                  *)
(*   SpecAcq       the acquisition thread alone, its cycles timed;         *)
(*   SpecPush      the locked push of sensor_acquisition with drawn        *)
(*                 arguments, beside the loop of communications.           *)
(*                                                                         *)
(* Conventions.  Python lists are sequences; Python index i is TLA+ index  *)
(* i+1.  A packed record (struct.pack "<I4f4f4f6f6f6f6f") is the sequence  *)
(* of its 37 fields, 4 bytes each; b'' is <<>>.  Floats are integers in a  *)
(* fixed unit (temperatures in C, ADC input in mV, pressures in units of   *)
(* 4 Pa, so that kPa = V / 0.1 * 10000 * 6.89476 is the exact integer      *)
(* product mV * 172369).  A Python value that may be None is NoneVal or    *)
(* Some(v).                                                                *)
(***************************************************************************)
EXTENDS Integers, Sequences, FiniteSets, TLC

\* ------------------------------------------------------------------ bounds
\* main.py builds Buffer(capacity=120); the model draws the capacity from
\* 1..MaxCapacity.
MaxCapacity == 3
\* Pushes between two clears in a run of SpecBuffer.
MaxPushes == 4
\* Timestamps drawn for add_sample in SpecBuffer are 1..MaxTs.
MaxTs == 4

\* Spec draws the capacity from 1..MaxTaskCapacity and runs MaxCycles
\* acquisition cycles.
MaxTaskCapacity == 2
MaxCycles == 3

\* SpecCodec pushes at most MaxRecords records and lets cmd_stream write at
\* most MaxWrites samples.
MaxRecords == 2
MaxWrites == 1

\* SpecCrc frames lists of at most MaxFrameRecords bytes objects.
MaxFrameRecords == 2

\* SpecCal restarts the process at most MaxBoots times and the operator enters
\* at most MaxAnswers calibration values.
MaxBoots == 1
MaxAnswers == 2

\* ------------------------------------------------------------- Python None
NoneVal == [none |-> TRUE]
Some(v) == [none |-> FALSE, val |-> v]

VARIABLES
    capacity,      \* Buffer.capacity
    buffer,        \* Buffer.buffer: capacity slots, each a packed record or b''
    write_index,   \* Buffer.write_index
    count,         \* Buffer.count
    pushed,        \* history: the records pushed since construction or the last clear
    thread_lock,   \* main.thread_lock: "free", or the thread that holds it
    adc,           \* the class bound to the name ADS1118 in lib/core/sensors.py
    ticks,         \* time.ticks_ms(), one tick per acquisition cycle
    acqPc,         \* sensor_acquisition: where the main thread is
    acqSample,     \* sensor_acquisition: the readings of the cycle, as add_sample's arguments
    acqError,      \* the exception that ended sensor_acquisition, "none" while it runs
    commPc,        \* communications / CLI: where the second thread is
    samples,       \* the list get_all() returned to communications or cmd_dump
    part,          \* cmd_dump's get_all: the first slice of the rotation
    sample,        \* cmd_stream: what get_latest() returned
    cancelledAt,   \* where the last KeyboardInterrupt hit a streaming loop, "none" otherwise
    stable,        \* history: get_all() at the last instant no push was in progress
    seen,          \* history: the values of stable during the get_all() in progress
    calibration,   \* the module lib.calibration as imported at process start
    calFile,       \* the file lib/calibration.py on the flash
    args,          \* cmd_cal_set: its arguments (type, channel, value), <<>> otherwise
    updates,       \* cmd_cal_set / cmd_cal_start: the new lists, _update_cal's argument
    lines,         \* _update_cal: the lines read from the file, then edited
    calPrompt,     \* cmd_cal_start: the number of prompts answered so far
    fatal,         \* the exception that ended the process at import time, "none" otherwise
    boots,         \* the number of process starts after the first
    answers,       \* the number of calibration values entered so far
    passed,        \* cmd_self_test: passed
    failed,        \* cmd_self_test: failed
    hkScan,        \* cmd_self_test: what i2c.scan() answered during its housekeeping read
    printed,       \* cmd_dump: what its loop did with each element of samples
    written,       \* cmd_stream: what it handed to out.write(), oldest first
    frame,         \* communications: sample, what buffer_crc16 returned (None at first)
    crcData,       \* SpecCrc: the list buffer_crc16 was called with, NoneVal before
    crcOut,        \* SpecCrc: what crc16 returned to buffer_crc16, NoneVal if not called
    elapsed,       \* SpecAcq: sensor_acquisition's elapsed of the last cycle, in ms
    sleep_time     \* SpecAcq: sensor_acquisition's sleep_time of the last cycle, in ms

vars == <<capacity, buffer, write_index, count, pushed, thread_lock, adc, ticks,
          acqPc, acqSample, acqError, commPc, samples, part, sample, cancelledAt,
          stable, seen, calibration, calFile, args, updates, lines, calPrompt, fatal, boots,
          answers, passed, failed, hkScan, printed, written, frame, crcData, crcOut,
          elapsed, sleep_time>>

calVars == <<calibration, calFile, args, updates, lines, calPrompt, fatal, boots, answers>>
testVars == <<passed, failed, hkScan, printed, written, frame, crcData, crcOut,
              elapsed, sleep_time>>
timeVars == <<elapsed, sleep_time>>
crcVars == <<frame, crcData, crcOut, timeVars>>

bufferVars == <<capacity, buffer, write_index, count>>
taskVars == <<thread_lock, adc, ticks, acqPc, acqSample, acqError, commPc, samples,
              part, sample, cancelledAt, stable, seen>>

\* ------------------------------------------------------------------ helpers
Min(a, b) == IF a < b THEN a ELSE b
Max(a, b) == IF a > b THEN a ELSE b
Repeat(x, n) == [i \in 1..n |-> x]
\* Python slices lst[:k] and lst[k:] (0 <= k <= len).
Prefix(lst, k) == SubSeq(lst, 1, k)
Suffix(lst, k) == SubSeq(lst, k + 1, Len(lst))
\* The last n elements of lst (all of it when shorter).
LastN(lst, n) == Suffix(lst, Max(0, Len(lst) - n))
\* x & 0xFFFFFFFF for x >= 0, on the two 16-bit halves of x.
Mask32(x) == (x % 65536) + 65536 * ((x \div 65536) % 65536)

\* ------------------------------------------------------- lib/core/buffer.py
\* Mutant of pad_list: a list longer than the group is kept whole.
pad_list_NoCut(values, length) ==
    IF values.none THEN Repeat(0, length)
    ELSE IF Len(values.val) >= length THEN values.val
    ELSE values.val \o Repeat(0, length - Len(values.val))

\* pad_list(values, length, fill=0.0)
pad_list(values, length) ==
    IF values.none THEN Repeat(0, length)
    ELSE IF Len(values.val) >= length THEN Prefix(values.val, length)
    ELSE values.val \o Repeat(0, length - Len(values.val))

\* The spacing of the single-precision numbers around x >= 0: 1 below 2^24,
\* doubling with each further binary digit.
RECURSIVE Ulp(_)
Ulp(x) == IF x < 16777216 THEN 1 ELSE 2 * Ulp(x \div 2)

\* What format "f" stores for the number x: the nearest single-precision
\* number (24 significant bits), a tie going to the even one.
RECURSIVE F32(_)
F32(x) ==
    IF x < 0 THEN 0 - F32(0 - x)
    ELSE LET q  == Ulp(x)
             lo == x - (x % q)
         IN  IF 2 * (x % q) < q THEN lo
             ELSE IF 2 * (x % q) > q THEN lo + q
             ELSE IF (lo \div q) % 2 = 0 THEN lo ELSE lo + q

\* Format "4f" or "6f" applied to a list of that length.
PackFloats(values) == [i \in 1..Len(values) |-> F32(values[i])]

\* struct.pack("<I4f4f4f6f6f6f6f", timestamp, *temperatures, ...): one field per
\* argument, in the order given, the timestamp as it is and each float in
\* single precision.
Pack(timestamp, temperatures, pressures, hk_temps, hk_v, hk_i, hk_p, hk_ina_temps) ==
    <<timestamp>> \o PackFloats(temperatures) \o PackFloats(pressures)
        \o PackFloats(hk_temps) \o PackFloats(hk_v) \o PackFloats(hk_i)
        \o PackFloats(hk_p) \o PackFloats(hk_ina_temps)

\* add_sample, lines 24-38: the defaults, the padding and the packing of the
\* arguments a (a record of the eight keyword arguments); now is ticks_ms().
Packed(a, now) ==
    Pack(IF a.timestamp.none THEN Mask32(now) ELSE a.timestamp.val,
         pad_list(a.temperatures, 4), pad_list(a.pressures, 4),
         pad_list(a.hk_temps, 4), pad_list(a.hk_voltages, 6),
         pad_list(a.hk_currents, 6), pad_list(a.hk_powers, 6),
         pad_list(a.hk_ina_temps, 6))

\* struct.pack raises struct.error for a timestamp that format "I" does not
\* hold, one outside 0 .. 2^32 - 1 (the bound is tested on the upper 16 bits).
PackFails(a, now) ==
    LET timestamp == IF a.timestamp.none THEN Mask32(now) ELSE a.timestamp.val
    IN  timestamp < 0 \/ timestamp \div 65536 > 65535

\* Mutant of BumpCount: the count is not capped at the capacity.
BumpCount_Uncapped(c, cap) == c + 1

\* Mutant of get_all: a full buffer is returned in slot order, not rotated.
get_all_SlotOrder(buf, w, c, cap) ==
    IF c = 0 THEN <<>> ELSE Prefix(buf, Min(c, cap))

\* add_sample, lines 40-43, as three statements.
StoreSlot(buf, w, packed) == [buf EXCEPT ![w + 1] = packed]
AdvanceIndex(w, cap) == (w + 1) % cap
BumpCount(c, cap) == IF c < cap THEN c + 1 ELSE c

\* get_all() on the fields (buf, w, c) of a buffer of capacity cap.
get_all(buf, w, c, cap) ==
    IF c = 0 THEN <<>>
    ELSE IF c < cap THEN Prefix(buf, c)
    ELSE Suffix(buf, w) \o Prefix(buf, w)

\* get_latest()
get_latest(buf, w, c, cap) ==
    IF c = 0 THEN NoneVal ELSE Some(buf[((w - 1) % cap) + 1])

\* is_full() and size()
is_full(c, cap) == c >= cap
size(c) == c

\* Buffer.__init__(capacity=cap)
BufferInit(cap) ==
    /\ capacity = cap
    /\ buffer = Repeat(<<>>, cap)
    /\ write_index = 0
    /\ count = 0

\* ------------------------------------------------------------ exceptions
\* The outcome of a call that may raise.
Returned(v) == [raised |-> FALSE, val |-> v]
Raised(e) == [raised |-> TRUE, exc |-> e]

\* --------------------------------------------------------- lib/calibration
\* lib/calibration.py as cmd_cal_reset writes it (default_calibration).
TEMP_OFFSETS == <<0, 0, 0, 0>>
PRESSURE_SLOPES == <<1, 1, 1, 1>>
PRESSURE_OFFSETS == <<0, 0, 0, 0>>

\* The three names lib/calibration.py defines, in the order of the file.
CalNames == <<"TEMP_OFFSETS", "PRESSURE_SLOPES", "PRESSURE_OFFSETS">>

\* A file is the sequence of its assignment lines (comments and blank lines
\* carry nothing); a write that was cut short inside a line leaves TornLine,
\* which is no Python statement, as the last line.
CalLine(name, values) == [name |-> name, values |-> values]
TornLine == CalLine("torn", <<>>)
CalFileOf(ls) == [exists |-> TRUE, lines |-> ls]
NoCalFile == [exists |-> FALSE, lines |-> <<>>]

\* The text default_calibration, as a file.
default_calibration ==
    CalFileOf(<<CalLine("TEMP_OFFSETS", TEMP_OFFSETS),
                CalLine("PRESSURE_SLOPES", PRESSURE_SLOPES),
                CalLine("PRESSURE_OFFSETS", PRESSURE_OFFSETS)>>)

\* The value the last assignment to name in the lines ls gives it, None when
\* no line assigns it.
RECURSIVE Assigned(_, _)
Assigned(ls, name) ==
    IF ls = <<>> THEN NoneVal
    ELSE IF ls[Len(ls)].name = name THEN Some(ls[Len(ls)].values)
    ELSE Assigned(SubSeq(ls, 1, Len(ls) - 1), name)

\* import lib.calibration: the module object, its attributes by name.
ImportCalibration(file) ==
    [name \in {CalNames[i] : i \in 1..3} |-> Assigned(file.lines, name)]

\* What import lib.calibration raises: ImportError for no file, SyntaxError
\* for a torn line, nothing ("none") otherwise.
ImportError(file) ==
    IF ~file.exists THEN "ImportError"
    ELSE IF \E i \in 1..Len(file.lines) : file.lines[i] = TornLine THEN "SyntaxError"
    ELSE "none"

\* No calibration command and no self-test in progress.
NoUpdates == [name \in {CalNames[i] : i \in 1..3} |-> NoneVal]

CalIdle ==
    /\ args = <<>>
    /\ updates = NoUpdates
    /\ lines = <<>>
    /\ calPrompt = 0
    /\ passed = 0
    /\ failed = 0
    /\ hkScan = {}
    /\ printed = <<>>
    /\ written = <<>>
    /\ frame = NoneVal
    /\ crcData = NoneVal
    /\ crcOut = NoneVal
    /\ elapsed = NoneVal
    /\ sleep_time = NoneVal

\* The process has started with the calibration file as shipped.
CalInit ==
    /\ calFile = default_calibration
    /\ calibration = ImportCalibration(default_calibration)
    /\ fatal = "none"
    /\ boots = 0
    /\ answers = 0
    /\ CalIdle

\* ------------------------------------------------- SpecBuffer: one caller
\* The argument lists a caller passes: shorter than, as long as and longer
\* than the group.
ListArgs == {Some(<<7>>), Some(<<1, 2, 3, 4>>), Some(<<1, 2, 3, 4, 5, 6, 7>>)}

NoArgs ==
    [timestamp |-> NoneVal, temperatures |-> NoneVal, pressures |-> NoneVal,
     hk_temps |-> NoneVal, hk_voltages |-> NoneVal, hk_currents |-> NoneVal,
     hk_powers |-> NoneVal, hk_ina_temps |-> NoneVal]

\* One complete call of add_sample: struct.pack raises before anything is
\* assigned, or the record is stored.
add_sample(a, now) ==
    IF PackFails(a, now) THEN UNCHANGED <<capacity, buffer, write_index, count>>
    ELSE /\ buffer' = StoreSlot(buffer, write_index, Packed(a, now))
         /\ write_index' = AdvanceIndex(write_index, capacity)
         /\ count' = BumpCount(count, capacity)
         /\ UNCHANGED capacity

\* Mutant of clear: the count is reset, the write index is not.
clear_KeepsIndex ==
    /\ count' = 0
    /\ UNCHANGED <<capacity, buffer, write_index>>

\* Mutant of clear: the write index is reset, the count is not.
clear_KeepsCount ==
    /\ write_index' = 0
    /\ UNCHANGED <<capacity, buffer, count>>

\* One complete call of clear.
clear ==
    /\ write_index' = 0
    /\ count' = 0
    /\ UNCHANGED <<capacity, buffer>>

\* add_sample(timestamp=ts), as the tests call it.
BufAddSample ==
    /\ Len(pushed) < MaxPushes
    /\ \E ts \in 1..MaxTs :
          LET a == [NoArgs EXCEPT !.timestamp = Some(ts)]
          IN  /\ add_sample(a, 0)
              /\ pushed' = Append(pushed, Packed(a, 0))
    /\ UNCHANGED taskVars
    /\ UNCHANGED <<calVars, testVars>>

\* add_sample(timestamp=0, temperatures=..., hk_voltages=...) with lists of any length.
BufAddSampleLists ==
    /\ Len(pushed) < MaxPushes
    /\ \E lst \in ListArgs :
          LET a == [NoArgs EXCEPT !.timestamp = Some(0), !.temperatures = lst,
                                  !.hk_voltages = lst]
          IN  /\ add_sample(a, 0)
              /\ pushed' = Append(pushed, Packed(a, 0))
    /\ UNCHANGED taskVars
    /\ UNCHANGED <<calVars, testVars>>

\* add_sample() with no timestamp: the clock is read instead.
BufAddSampleNow ==
    /\ Len(pushed) < MaxPushes
    /\ add_sample(NoArgs, 65536 + MaxTs + 1)
    /\ pushed' = Append(pushed, Packed(NoArgs, 65536 + MaxTs + 1))
    /\ UNCHANGED taskVars
    /\ UNCHANGED <<calVars, testVars>>

BufClear ==
    /\ clear
    /\ pushed' = <<>>
    /\ UNCHANGED taskVars
    /\ UNCHANGED <<calVars, testVars>>

\* ------------------------------------- struct.unpack, cmd_dump, cmd_stream
\* A struct format "<I..." as the list of its counts: one uint32, then the
\* groups of floats.  DumpFmt is "<I4f4f4f6f6f6f6f" (cli.py:189, buffer.py:36),
\* TestFmt is "<I4f4f6f6f6f6f6f" (core_test.py:57 and 78).
DumpFmt == <<1, 4, 4, 4, 6, 6, 6, 6>>
TestFmt == <<1, 4, 4, 6, 6, 6, 6, 6>>

RECURSIVE Sum(_)
Sum(lst) == IF lst = <<>> THEN 0 ELSE lst[1] + Sum(Tail(lst))

\* struct.calcsize(fmt) and len(data), in bytes: "<" has no padding, "I" and
\* "f" are 4 bytes each.
calcsize(fmt) == 4 * Sum(fmt)
ByteLen(data) == 4 * Len(data)

\* Mutant of unpack: a block of any length is decoded, short ones as if
\* followed by zeros.
unpack_AnyLength(fmt, data) ==
    Returned(Prefix(data \o Repeat(0, Sum(fmt)), Sum(fmt)))

\* struct.unpack(fmt, data): struct.error unless data is calcsize(fmt) bytes
\* long; the fields are the stored numbers.
unpack(fmt, data) ==
    IF ByteLen(data) # calcsize(fmt) THEN Raised("struct.error")
    ELSE Returned(data)

\* Mutant of DumpFields: the groups are cut as "<I4f4f6f6f6f6f6f" would have
\* them.
DumpFields_TestLayout(unpacked) ==
    [timestamp |-> unpacked[1], temps |-> SubSeq(unpacked, 2, 5),
     pressures |-> SubSeq(unpacked, 6, 9), hk_temps |-> SubSeq(unpacked, 10, 15),
     hk_voltages |-> SubSeq(unpacked, 16, 21), hk_currents |-> SubSeq(unpacked, 22, 27),
     hk_powers |-> SubSeq(unpacked, 28, 33), hk_ina_temps |-> SubSeq(unpacked, 34, 37)]

\* cmd_dump lines 197-204: unpacked[0], unpacked[1:5], ..., unpacked[31:37].
DumpFields(unpacked) ==
    [timestamp |-> unpacked[1], temps |-> SubSeq(unpacked, 2, 5),
     pressures |-> SubSeq(unpacked, 6, 9), hk_temps |-> SubSeq(unpacked, 10, 13),
     hk_voltages |-> SubSeq(unpacked, 14, 19), hk_currents |-> SubSeq(unpacked, 20, 25),
     hk_powers |-> SubSeq(unpacked, 26, 31), hk_ina_temps |-> SubSeq(unpacked, 32, 37)]

\* No field assigned: what cmd_dump has of a sample it skipped or failed on.
NoFields ==
    [timestamp |-> 0, temps |-> <<>>, pressures |-> <<>>, hk_temps |-> <<>>,
     hk_voltages |-> <<>>, hk_currents |-> <<>>, hk_powers |-> <<>>,
     hk_ina_temps |-> <<>>]

\* cmd_dump lines 192-217, one turn of the loop: an empty element is passed
\* over, a failed unpack prints the error line, else the fields are printed.
DumpOne(packed_data) ==
    IF packed_data = <<>> THEN [out |-> "none", fields |-> NoFields]
    ELSE LET unpacked == unpack(DumpFmt, packed_data)
         IN  IF unpacked.raised THEN [out |-> "error", fields |-> NoFields]
             ELSE [out |-> "fields", fields |-> DumpFields(unpacked.val)]

\* cmd_dump lines 191-217: the loop over samples.
DumpLoop(lst) == [idx \in 1..Len(lst) |-> DumpOne(lst[idx])]

\* cmd_stream line 485: if sample and len(sample) == 148.
StreamWrites(s) ==
    IF s.none THEN FALSE
    ELSE IF s.val = <<>> THEN FALSE
    ELSE ByteLen(s.val) = 148

\* ------------------------------------------------------------ lib/utils.py
\* The bytes of a packed record.  "<I": the four bytes of the timestamp, low
\* byte first.
U32Bytes(x) ==
    <<x % 256, (x \div 256) % 256, (x \div 65536) % 256, (x \div 16777216) % 256>>

RECURSIVE Pow2(_)
Pow2(n) == IF n = 0 THEN 1 ELSE 2 * Pow2(n - 1)

\* The position of the highest binary digit of a >= 1.
RECURSIVE Log2(_)
Log2(a) == IF a < 2 THEN 0 ELSE 1 + Log2(a \div 2)

\* "<f": the four bytes of the single-precision number x (sign, exponent
\* biased by 127, 23 bits of fraction), low byte first.
F32Bytes(x) ==
    IF x = 0 THEN <<0, 0, 0, 0>>
    ELSE LET a    == IF x < 0 THEN 0 - x ELSE x
             e    == Log2(a)
             frac == IF e <= 23 THEN a * Pow2(23 - e) - 8388608
                     ELSE (a \div Pow2(e - 23)) - 8388608
             expo == e + 127
         IN  <<frac % 256, (frac \div 256) % 256,
               (expo % 2) * 128 + (frac \div 65536),
               (IF x < 0 THEN 128 ELSE 0) + (expo \div 2)>>

RECURSIVE FloatsBytes(_, _)
FloatsBytes(packed, i) ==
    IF i > Len(packed) THEN <<>> ELSE F32Bytes(packed[i]) \o FloatsBytes(packed, i + 1)

\* The bytes object add_sample stored: b'' for an empty slot.
RecordBytes(packed) ==
    IF packed = <<>> THEN <<>> ELSE U32Bytes(packed[1]) \o FloatsBytes(packed, 2)

\* a ^ b for a, b >= 0.
RECURSIVE Xor(_, _)
Xor(a, b) ==
    IF a = 0 THEN b
    ELSE IF b = 0 THEN a
    ELSE ((a + b) % 2) + 2 * Xor(a \div 2, b \div 2)

\* crc16 lines 31-34: one turn of the inner loop.
CrcShiftOnce(crc, poly) == IF crc % 2 = 1 THEN Xor(crc \div 2, poly) ELSE crc \div 2

\* crc16 lines 30-34: n more turns of the inner loop (each turn works on the
\* value of the turn before, c).
RECURSIVE CrcShift(_, _, _)
CrcShift(crc, poly, n) ==
    IF n = 0 THEN crc
    ELSE CHOOSE r \in {CrcShift(CrcShiftOnce(c, poly), poly, n - 1) : c \in {crc}} : TRUE

\* crc16 lines 28-34: the outer loop over bytes lo..hi of data, entered with
\* crc; the range is halved so that long data nest only a few calls deep.
RECURSIVE CrcBytes(_, _, _, _, _)
CrcBytes(data, lo, hi, crc, poly) ==
    IF lo > hi THEN crc
    ELSE IF lo = hi THEN CrcShift(Xor(crc, data[lo]), poly, 8)
    ELSE LET mid == (lo + hi) \div 2
         IN  CHOOSE r \in {CrcBytes(data, mid + 1, hi, c, poly) :
                              c \in {CrcBytes(data, lo, mid, crc, poly)}} : TRUE

\* crc16(data, poly=0xA001, initial=0xFFFF)
crc16(data, poly, initial) == CrcBytes(data, 1, Len(data), initial, poly) % 65536

\* Mutant of crc16_default: the register starts at 0.
crc16_ZeroInitial(data) == crc16(data, 40961, 0)

\* crc16(data) with the defaults of line 26.
crc16_default(data) == crc16(data, 40961, 65535)

\* b"".join(buffer_data)
RECURSIVE Join(_)
Join(buffer_data) ==
    IF buffer_data = <<>> THEN <<>> ELSE buffer_data[1] \o Join(Tail(buffer_data))

\* crc.to_bytes(2, "little")
ToBytesLittle(crc) == <<crc % 256, (crc \div 256) % 256>>

\* Mutant of buffer_crc16: the checksum goes out high byte first.
buffer_crc16_BigEndian(buffer_data) ==
    IF buffer_data = <<>> THEN NoneVal
    ELSE CHOOSE r \in {Some(c[1] \o <<c[2] \div 256, c[2] % 256>>) :
                          c \in {<<combined, crc16_default(combined)>> :
                                    combined \in {Join(buffer_data)}}} : TRUE

\* buffer_crc16(buffer_data): None for an empty list, else the records joined
\* (combined) and followed by the checksum (crc = crc16(combined)); the two
\* are computed once each, c is <<combined, crc>>.
buffer_crc16(buffer_data) ==
    IF buffer_data = <<>> THEN NoneVal
    ELSE CHOOSE r \in {Some(c[1] \o ToBytesLittle(c[2])) :
                          c \in {<<combined, crc16_default(combined)>> :
                                    combined \in {Join(buffer_data)}}} : TRUE

\* ------------------------------------------------ SpecCodec: pack and unpack
\* The arguments of add_sample: the record of test_buffer_pack_and_unpack
\* (six housekeeping temperatures), a record with the group sizes of the
\* layout whose values single precision holds, one with a value it does not
\* hold, and a bare timestamp.
CodecArgs ==
    {[timestamp |-> Some(305419896), temperatures |-> Some(<<10, 11, -5, 0>>),
      pressures |-> Some(<<1, 2, 3, 4>>), hk_temps |-> Some(Repeat(25, 6)),
      hk_voltages |-> Some(Repeat(3300, 6)), hk_currents |-> Some(Repeat(10, 6)),
      hk_powers |-> Some(Repeat(33, 6)), hk_ina_temps |-> Some(Repeat(26, 6))],
     [timestamp |-> Some(2147483647),
      temperatures |-> Some(<<16777218, -16777220, 7, 0>>),
      pressures |-> Some(<<1, 2, 3, 4>>), hk_temps |-> Some(<<25, 26, 27, 28>>),
      hk_voltages |-> Some(<<11, 12, 13, 14, 15, 16>>),
      hk_currents |-> Some(<<21, 22, 23, 24, 25, 26>>),
      hk_powers |-> Some(<<31, 32, 33, 34, 35, 36>>),
      hk_ina_temps |-> Some(<<41, 42, 43, 44, 45, 46>>)],
     [timestamp |-> Some(0), temperatures |-> Some(<<16777217, 0, 0, 0>>),
      pressures |-> Some(<<1, 2, 3, 4>>), hk_temps |-> Some(<<25, 26, 27, 28>>),
      hk_voltages |-> Some(Repeat(3300, 6)), hk_currents |-> Some(Repeat(10, 6)),
      hk_powers |-> Some(Repeat(33, 6)), hk_ina_temps |-> Some(Repeat(26, 6))],
     [NoArgs EXCEPT !.timestamp = Some(4)]}

\* Byte blocks add_sample did not make: b'', and 144, 148, 152 and 156 bytes.
Blocks == {<<>>, Repeat(9, 36), Repeat(9, 37), Repeat(9, 38), Repeat(9, 39)}

\* add_sample(timestamp=..., temperatures=..., ...).
CodecAddSample ==
    /\ Len(pushed) < MaxRecords
    /\ samples = <<>>
    /\ sample.none
    /\ \E a \in CodecArgs :
          /\ add_sample(a, 0)
          /\ pushed' = Append(pushed, Packed(a, 0))
          /\ acqSample' = a
    /\ samples' = <<>>
    /\ sample' = NoneVal
    /\ printed' = <<>>
    /\ UNCHANGED <<thread_lock, adc, ticks, acqPc, acqError, commPc, part, cancelledAt,
                   stable, seen, calVars, passed, failed, hkScan, written, crcVars>>

\* cmd_erase with no other thread running: self.buffer.clear() and the message.
CodecErase ==
    /\ samples = <<>>
    /\ sample.none
    /\ clear
    /\ pushed' = <<>>
    /\ UNCHANGED <<taskVars, calVars, testVars>>

\* cmd_dump line 181: samples = self.buffer.get_all().
CodecGetAll ==
    /\ samples = <<>>
    /\ sample.none
    /\ samples' = get_all(buffer, write_index, count, capacity)
    /\ printed' = <<>>
    /\ UNCHANGED <<bufferVars, pushed, thread_lock, adc, ticks, acqPc, acqSample,
                   acqError, commPc, part, sample, cancelledAt, stable, seen, calVars,
                   passed, failed, hkScan, written, crcVars>>

\* The same with a block of another origin in front of the stored records
\* (Buffer.buffer is an ordinary list any code can assign to).
CodecGetAllForeign ==
    /\ samples = <<>>
    /\ sample.none
    /\ \E b \in Blocks : samples' = <<b>> \o get_all(buffer, write_index, count, capacity)
    /\ printed' = <<>>
    /\ UNCHANGED <<bufferVars, pushed, thread_lock, adc, ticks, acqPc, acqSample,
                   acqError, commPc, part, sample, cancelledAt, stable, seen, calVars,
                   passed, failed, hkScan, written, crcVars>>

\* cmd_dump lines 183-219 for a list that is not empty.
CodecDump ==
    /\ samples # <<>>
    /\ printed = <<>>
    /\ printed' = DumpLoop(samples)
    /\ UNCHANGED <<bufferVars, pushed, taskVars, calVars, passed, failed, hkScan,
                   written, crcVars>>

\* cmd_dump line 219: the command returns, its locals are gone.
CodecDumpReturn ==
    /\ printed # <<>>
    /\ samples' = <<>>
    /\ printed' = <<>>
    /\ UNCHANGED <<bufferVars, pushed, thread_lock, adc, ticks, acqPc, acqSample,
                   acqError, commPc, part, sample, cancelledAt, stable, seen, calVars,
                   passed, failed, hkScan, written, crcVars>>

\* cmd_stream lines 482-483: sample = self.buffer.get_latest().
CodecGetLatest ==
    /\ Len(written) < MaxWrites
    /\ samples = <<>>
    /\ sample.none
    /\ sample' = get_latest(buffer, write_index, count, capacity)
    /\ UNCHANGED <<bufferVars, pushed, thread_lock, adc, ticks, acqPc, acqSample,
                   acqError, commPc, samples, part, cancelledAt, stable, seen, calVars,
                   testVars>>

\* The same, get_latest() answering a block of another origin.
CodecGetLatestForeign ==
    /\ Len(written) < MaxWrites
    /\ samples = <<>>
    /\ sample.none
    /\ \E b \in Blocks : sample' = Some(b)
    /\ UNCHANGED <<bufferVars, pushed, thread_lock, adc, ticks, acqPc, acqSample,
                   acqError, commPc, samples, part, cancelledAt, stable, seen, calVars,
                   testVars>>

\* cmd_stream lines 485-488: out.write(sample) when the test lets it, then the
\* next turn of the loop.
CodecStreamWrite ==
    /\ ~sample.none
    /\ written' = IF StreamWrites(sample) THEN Append(written, sample.val) ELSE written
    /\ sample' = NoneVal
    /\ UNCHANGED <<bufferVars, pushed, thread_lock, adc, ticks, acqPc, acqSample,
                   acqError, commPc, samples, part, cancelledAt, stable, seen, calVars,
                   passed, failed, hkScan, printed, crcVars>>

NextCodec ==
    \/ CodecAddSample \/ CodecErase \/ CodecGetAll \/ CodecGetAllForeign \/ CodecDump
    \/ CodecDumpReturn \/ CodecGetLatest \/ CodecGetLatestForeign \/ CodecStreamWrite

TasksIdle ==
    /\ thread_lock = "free"
    /\ adc = "ADS1118"
    /\ ticks = 0
    /\ acqPc = "idle"
    /\ acqSample = NoArgs
    /\ acqError = "none"
    /\ commPc = "idle"
    /\ samples = <<>>
    /\ part = <<>>
    /\ sample = NoneVal
    /\ cancelledAt = "none"
    /\ stable = <<>>
    /\ seen = {}
    /\ CalInit

InitBuffer ==
    /\ \E cap \in 1..MaxCapacity : BufferInit(cap)
    /\ pushed = <<>>
    /\ TasksIdle

NextBuffer == BufAddSample \/ BufAddSampleLists \/ BufAddSampleNow \/ BufClear

SpecBuffer == InitBuffer /\ [][NextBuffer]_vars

\* The bytes objects SpecCrc frames: b'', single bytes, short strings and a
\* record as add_sample stores it.
CrcRecords ==
    {<<>>, <<0>>, <<1>>, <<255>>, <<1, 2>>, <<2, 1>>, <<49, 50, 51, 52, 53, 54, 55, 56, 57>>,
     <<0, 0>>, <<128, 0, 255>>,
     RecordBytes(Packed([NoArgs EXCEPT !.timestamp = Some(305419896),
                                       !.temperatures = Some(<<10, 11, -5, 0>>)], 0))}

\* The lists of at most n of them.
RECURSIVE CrcLists(_)
CrcLists(n) ==
    IF n = 0 THEN {<<>>}
    ELSE CrcLists(n - 1) \cup {Append(lst, r) : lst \in CrcLists(n - 1), r \in CrcRecords}

\* One call utils.buffer_crc16(buffer_data), with the call of crc16 in it.
CrcFrame ==
    /\ crcData.none
    /\ \E buffer_data \in CrcLists(MaxFrameRecords) :
          /\ crcData' = Some(buffer_data)
          /\ crcOut' = IF buffer_data = <<>> THEN NoneVal
                       ELSE Some(crc16_default(Join(buffer_data)))
          /\ frame' = buffer_crc16(buffer_data)
    /\ UNCHANGED <<bufferVars, pushed, taskVars, calVars, passed, failed, hkScan,
                   printed, written, timeVars>>

\* The caller has the result; the next call can be made.
CrcReturn ==
    /\ ~crcData.none
    /\ crcData' = NoneVal
    /\ crcOut' = NoneVal
    /\ frame' = NoneVal
    /\ UNCHANGED <<bufferVars, pushed, taskVars, calVars, passed, failed, hkScan,
                   printed, written, timeVars>>

InitCrc ==
    /\ BufferInit(1)
    /\ pushed = <<>>
    /\ TasksIdle

\* utils.buffer_crc16 called again and again.
SpecCrc == InitCrc /\ [][CrcFrame \/ CrcReturn]_vars

\* The Buffer, cmd_dump's loop and cmd_stream's write, call after call.
SpecCodec == InitBuffer /\ [][NextCodec]_vars

\* ------------------------------------------------------ lib/core/sensors.py
\* ADS1118.read_differential(index) for index 0, 1: the pair's voltage, mV.
read_differential(index) == 50 * (index + 1)

\* ADS1118.read_pressure(channel): a voltage for channels 0 and 1, None for
\* every other channel.
ADS1118_read_pressure(channel) ==
    IF channel \in {0, 1} THEN Some(read_differential(channel)) ELSE NoneVal

\* FakeADC.read_pressure(channel) of the tests: 1.234 * (channel + 1) V.
FakeADC_read_pressure(channel) == Some(1234 * (channel + 1))

\* self.pressure_adc.read_pressure(channel), for the class bound to ADS1118.
pressure_adc_read_pressure(channel) ==
    IF adc = "ADS1118" THEN ADS1118_read_pressure(channel)
    ELSE FakeADC_read_pressure(channel)

\* self.thermocouples[channel].read_temperature(): chip selects 12..15.
thermocouple_read_temperature(channel) == 100 + (12 + channel)

\* SensorManager.read_temperature(channel): the attribute
\* calibration.TEMP_OFFSETS is looked up in the module imported at start.
read_temperature(channel) ==
    IF calibration["TEMP_OFFSETS"].none THEN Raised("AttributeError")
    ELSE Returned(thermocouple_read_temperature(channel)
                    + calibration["TEMP_OFFSETS"].val[channel + 1])

\* SensorManager.read_pressure(channel): slope * None raises TypeError.
read_pressure(channel) ==
    LET v == pressure_adc_read_pressure(channel)
    IN  IF calibration["PRESSURE_SLOPES"].none THEN Raised("AttributeError")
        ELSE IF v.none THEN Raised("TypeError")
        ELSE IF calibration["PRESSURE_OFFSETS"].none THEN Raised("AttributeError")
        ELSE Returned((calibration["PRESSURE_SLOPES"].val[channel + 1] * v.val
                        + calibration["PRESSURE_OFFSETS"].val[channel + 1]) * 172369)

\* The first of the outcomes rs that raised, else their values as a list.
FirstRaised(rs) ==
    IF \E i \in 1..Len(rs) : rs[i].raised
    THEN rs[CHOOSE i \in 1..Len(rs) : rs[i].raised /\ \A j \in 1..(i - 1) : ~rs[j].raised]
    ELSE Returned([i \in 1..Len(rs) |-> rs[i].val])

\* SensorManager.read_all_temperatures()
read_all_temperatures == FirstRaised([i \in 1..4 |-> read_temperature(i - 1)])

\* SensorManager.read_all_pressures(): the comprehension over range(4) raises
\* what its first failing read raises.
read_all_pressures == FirstRaised([i \in 1..4 |-> read_pressure(i - 1)])

\* SensorManager.read_sensors() at clock value now.
read_sensors(now) ==
    IF read_all_temperatures.raised THEN read_all_temperatures
    ELSE IF read_all_pressures.raised THEN read_all_pressures
    ELSE Returned([timestamp |-> Mask32(now),
                   temperatures |-> read_all_temperatures.val,
                   pressures |-> read_all_pressures.val])

\* ------------------------------------------------- lib/core/housekeeping.py
INA238_ADDRESSES == <<64, 65, 66, 67, 68>>
MAX6634_ADDRESSES == <<72, 73, 74, 75, 76>>
AllAddresses == {INA238_ADDRESSES[i] : i \in 1..5} \cup {MAX6634_ADDRESSES[i] : i \in 1..5}

\* What i2c.scan() answers during one read_all_housekeeping_data(): every
\* device, none, or all but the first of each kind.
ScanSets == {AllAddresses, {}, AllAddresses \ {64, 72}}

\* HousekeepingManager.read_ina238_data(channel): (V, I, P, T) in mV, mA, mW, C;
\* zeros when the address is not on the bus.
read_ina238_data(channel, scan) ==
    IF INA238_ADDRESSES[channel + 1] \notin scan THEN <<0, 0, 0, 0>>
    ELSE <<3300, 10, 33, 25>>

\* HousekeepingManager.read_housekeeping_temperature(channel): zero when the
\* address is not on the bus; the driver's readfrom_mem raises OSError when the
\* transfer fails (i2cOk false).
read_housekeeping_temperature(channel, scan, i2cOk) ==
    IF MAX6634_ADDRESSES[channel + 1] \notin scan THEN Returned(0)
    ELSE IF ~i2cOk THEN Raised("OSError")
    ELSE Returned(42 + (MAX6634_ADDRESSES[channel + 1] % 16))

\* HousekeepingManager.read_all_housekeeping_data() at clock value now.
read_all_housekeeping_data(now, scan, i2cOk) ==
    IF \E ch \in 0..4 : read_housekeeping_temperature(ch, scan, i2cOk).raised
    THEN Raised("OSError")
    ELSE Returned([timestamp |-> Mask32(now),
                   ina238_data |-> [i \in 1..5 |-> read_ina238_data(i - 1, scan)],
                   max6634_temperatures |->
                       [i \in 1..5 |-> read_housekeeping_temperature(i - 1, scan, i2cOk).val]])

\* main.py line 25: map(list, zip(*ina238_data)), column k of the tuples.
Column(ina238_data, k) == [i \in 1..Len(ina238_data) |-> ina238_data[i][k]]

\* ------------------------------------------- main.py: sensor_acquisition
\* The pc values at which a thread is inside Buffer.add_sample.
AcqInBuffer == {"store", "advance", "bump"}

\* The pc values at which the second thread is inside cmd_dump's get_all().
DumpPcs == {"dump_empty", "dump_full", "dump_prefix", "dump_suffix", "dump_rest"}

\* get_all() as it will be once the add_sample in progress has run its
\* remaining statements.
AfterPendingPush ==
    LET buf == IF acqPc = "store"
               THEN StoreSlot(buffer, write_index, Packed(acqSample, ticks))
               ELSE buffer
        w == IF acqPc \in {"store", "advance"}
             THEN AdvanceIndex(write_index, capacity) ELSE write_index
    IN  get_all(buf, w, BumpCount(count, capacity), capacity)

\* Line 23, sensors.read_sensors() returns.
AcqSensorsReturn ==
    /\ acqPc = "read_sensors"
    /\ ~read_sensors(ticks).raised
    /\ LET r == read_sensors(ticks).val
       IN  acqSample' = [acqSample EXCEPT !.timestamp = Some(r.timestamp),
                                          !.temperatures = Some(r.temperatures),
                                          !.pressures = Some(r.pressures)]
    /\ acqPc' = "read_housekeeping"
    /\ UNCHANGED <<bufferVars, pushed, thread_lock, adc, ticks, acqError, commPc,
                   samples, part, sample, cancelledAt, stable, seen>>
    /\ UNCHANGED <<calVars, testVars>>

\* Lines 23 and 45-47, sensors.read_sensors() raises: power_led off, re-raise;
\* main() catches it and blinks forever.
AcqSensorsRaise ==
    /\ acqPc = "read_sensors"
    /\ read_sensors(ticks).raised
    /\ acqError' = read_sensors(ticks).exc
    /\ acqPc' = "stopped"
    /\ UNCHANGED <<bufferVars, pushed, thread_lock, adc, ticks, acqSample, commPc,
                   samples, part, sample, cancelledAt, stable, seen>>
    /\ UNCHANGED <<calVars, testVars>>

\* Lines 24-25, housekeeping.read_all_housekeeping_data() returns.
AcqHousekeepingReturn ==
    /\ acqPc = "read_housekeeping"
    /\ \E scan \in ScanSets :
          LET r == read_all_housekeeping_data(ticks, scan, TRUE).val
          IN  acqSample' = [acqSample EXCEPT
                               !.hk_temps = Some(r.max6634_temperatures),
                               !.hk_voltages = Some(Column(r.ina238_data, 1)),
                               !.hk_currents = Some(Column(r.ina238_data, 2)),
                               !.hk_powers = Some(Column(r.ina238_data, 3)),
                               !.hk_ina_temps = Some(Column(r.ina238_data, 4))]
    /\ acqPc' = "acquire"
    /\ UNCHANGED <<bufferVars, pushed, thread_lock, adc, ticks, acqError, commPc,
                   samples, part, sample, cancelledAt, stable, seen>>
    /\ UNCHANGED <<calVars, testVars>>

\* Lines 24 and 45-47, read_all_housekeeping_data() raises.
AcqHousekeepingRaise ==
    /\ acqPc = "read_housekeeping"
    /\ \E scan \in ScanSets :
          /\ read_all_housekeeping_data(ticks, scan, FALSE).raised
          /\ acqError' = read_all_housekeeping_data(ticks, scan, FALSE).exc
    /\ acqPc' = "stopped"
    /\ UNCHANGED <<bufferVars, pushed, thread_lock, adc, ticks, acqSample, commPc,
                   samples, part, sample, cancelledAt, stable, seen>>
    /\ UNCHANGED <<calVars, testVars>>

\* Line 27, with thread_lock: the lock is taken when free.
AcqAcquire ==
    /\ acqPc = "acquire"
    /\ thread_lock = "free"
    /\ thread_lock' = "acq"
    /\ acqPc' = "store"
    /\ UNCHANGED <<bufferVars, pushed, adc, ticks, acqSample, acqError, commPc,
                   samples, part, sample, cancelledAt, stable, seen>>
    /\ UNCHANGED <<calVars, testVars>>

\* buffer.py lines 24-38, struct.pack raises: the with block of main.py line
\* 27 releases the lock, lines 45-47 turn the LED off and re-raise.  The
\* timestamp read_sensors returns is masked to 32 bits, so this step is taken
\* only where the arguments are drawn (SpecPush).
AcqPackRaise ==
    /\ acqPc = "store"
    /\ PackFails(acqSample, ticks)
    /\ thread_lock' = "free"
    /\ acqError' = "struct.error"
    /\ acqPc' = "stopped"
    /\ UNCHANGED <<bufferVars, pushed, adc, ticks, acqSample, commPc, samples, part,
                   sample, cancelledAt, stable, seen>>
    /\ UNCHANGED <<calVars, testVars>>

\* buffer.py lines 24-40: the record is packed, then
\* self.buffer[self.write_index] = packed
AcqStore ==
    /\ acqPc = "store"
    /\ ~PackFails(acqSample, ticks)
    /\ buffer' = StoreSlot(buffer, write_index, Packed(acqSample, ticks))
    /\ acqPc' = "advance"
    /\ UNCHANGED <<capacity, write_index, count, pushed, thread_lock, adc, ticks,
                   acqSample, acqError, commPc, samples, part, sample, cancelledAt,
                   stable, seen>>
    /\ UNCHANGED <<calVars, testVars>>

\* buffer.py line 41: self.write_index = (self.write_index + 1) % self.capacity
AcqAdvance ==
    /\ acqPc = "advance"
    /\ write_index' = AdvanceIndex(write_index, capacity)
    /\ acqPc' = "bump"
    /\ UNCHANGED <<capacity, buffer, count, pushed, thread_lock, adc, ticks,
                   acqSample, acqError, commPc, samples, part, sample, cancelledAt,
                   stable, seen>>
    /\ UNCHANGED <<calVars, testVars>>

\* buffer.py lines 42-45 and the end of the with block: the count, the return,
\* the release of the lock.  The push is complete: stable is the new get_all().
AcqBump ==
    /\ acqPc = "bump"
    /\ count' = BumpCount(count, capacity)
    /\ thread_lock' = "free"
    /\ acqSample' = NoArgs
    /\ acqPc' = "sleep"
    /\ stable' = get_all(buffer, write_index, count', capacity)
    /\ seen' = IF commPc \in DumpPcs \cup {"dump_done"} THEN seen \cup {stable'}
               ELSE seen
    /\ UNCHANGED <<capacity, buffer, write_index, pushed, adc, ticks, acqError,
                   commPc, samples, part, sample, cancelledAt>>
    /\ UNCHANGED <<calVars, testVars>>

\* Lines 39-43 and 21-22: gc, the sleep for the rest of the period, the next cycle.
AcqWake ==
    /\ acqPc = "sleep"
    /\ ticks + 1 < MaxCycles
    /\ ticks' = ticks + 1
    /\ acqPc' = "read_sensors"
    /\ UNCHANGED <<bufferVars, pushed, thread_lock, adc, acqSample, acqError, commPc,
                   samples, part, sample, cancelledAt, stable, seen>>
    /\ UNCHANGED <<calVars, testVars>>

\* main.py line 11.
interval_ms == 500

\* What a cycle may take up to line 41, in ms: no time, less than the period,
\* the period to the millisecond, more.
Elapsed == {0, 120, 499, 500, 501, 900}

\* Mutant of SleepTime: the remainder of the period, not floored at 0.
SleepTime_Unclamped(e) == interval_ms - e

\* Line 42: sleep_time = max(0, interval_ms - elapsed).
SleepTime(e) == Max(0, interval_ms - e)

\* AcqWake with the clock read: lines 39-43, elapsed and sleep_time computed
\* and slept, and lines 21-22, the next cycle.
AcqSleepWake ==
    /\ acqPc = "sleep"
    /\ ticks + 1 < MaxCycles
    /\ \E e \in Elapsed :
          /\ elapsed' = Some(e)
          /\ sleep_time' = Some(SleepTime(e))
    /\ ticks' = ticks + 1
    /\ acqPc' = "read_sensors"
    /\ UNCHANGED <<bufferVars, pushed, thread_lock, adc, acqSample, acqError, commPc,
                   samples, part, sample, cancelledAt, stable, seen>>
    /\ UNCHANGED <<calVars, passed, failed, hkScan, printed, written, frame, crcData,
                   crcOut>>

\* sensor_acquisition with its sleep timed.
sensor_acquisition_timed ==
    \/ AcqSensorsReturn \/ AcqSensorsRaise
    \/ AcqHousekeepingReturn \/ AcqHousekeepingRaise
    \/ AcqAcquire \/ AcqStore \/ AcqAdvance \/ AcqBump \/ AcqSleepWake

sensor_acquisition ==
    \/ AcqSensorsReturn \/ AcqSensorsRaise
    \/ AcqHousekeepingReturn \/ AcqHousekeepingRaise
    \/ AcqAcquire \/ AcqStore \/ AcqAdvance \/ AcqBump \/ AcqWake

\* ------------------------------------------------ main.py: communications
CommFrame == <<pushed, adc, ticks, acqPc, acqSample, acqError>>

\* Lines 64-71: is_usb_connected() is true; the CLI is built and run() entered.
CommPollUsb ==
    /\ commPc = "poll"
    /\ commPc' = "cli_readline"
    /\ UNCHANGED <<bufferVars, CommFrame, thread_lock, samples, part, sample,
                   cancelledAt, stable, seen>>
    /\ UNCHANGED <<calVars, testVars>>

\* Lines 64-66 and 77: is_usb_connected() is false.
CommPollNoUsb ==
    /\ commPc = "poll"
    /\ commPc' = "snapshot_acquire"
    /\ UNCHANGED <<bufferVars, CommFrame, thread_lock, samples, part, sample,
                   cancelledAt, stable, seen>>
    /\ UNCHANGED <<calVars, testVars>>

\* Line 78, with thread_lock.
CommAcquire ==
    /\ commPc = "snapshot_acquire"
    /\ thread_lock = "free"
    /\ thread_lock' = "comm"
    /\ commPc' = "snapshot"
    /\ UNCHANGED <<bufferVars, CommFrame, samples, part, sample, cancelledAt,
                   stable, seen>>
    /\ UNCHANGED <<calVars, testVars>>

\* The list of bytes objects get_all() returned.
SamplesBytes(lst) == [i \in 1..Len(lst) |-> RecordBytes(lst[i])]

\* `if sample:` for a bytes object that may be None.
Truthy(s) == IF s.none THEN FALSE ELSE s.val # <<>>

\* Mutant of CommSnapshot: the snapshot is framed and sent whatever it holds.
CommSnapshot_NoTest ==
    /\ commPc = "snapshot"
    /\ samples' = get_all(buffer, write_index, count, capacity)
    /\ frame' = IF samples' # <<>> THEN buffer_crc16(SamplesBytes(samples'))
                ELSE Some(ToBytesLittle(crc16_default(<<>>)))
    /\ seen' = {stable}
    /\ thread_lock' = "free"
    /\ commPc' = "send"
    /\ UNCHANGED <<bufferVars, CommFrame, part, sample, cancelledAt, stable>>
    /\ UNCHANGED <<calVars, passed, failed, hkScan, printed, written, crcData, crcOut, timeVars>>

\* Lines 77-83: sample = None, get_all() and the framing of a snapshot that is
\* not empty under the lock, the release, the test of the frame.
CommSnapshot ==
    /\ commPc = "snapshot"
    /\ samples' = get_all(buffer, write_index, count, capacity)
    /\ frame' = IF samples' # <<>> THEN buffer_crc16(SamplesBytes(samples')) ELSE NoneVal
    /\ seen' = {stable}
    /\ thread_lock' = "free"
    /\ commPc' = IF Truthy(frame') THEN "send" ELSE "poll"
    /\ UNCHANGED <<bufferVars, CommFrame, part, sample, cancelledAt, stable>>
    /\ UNCHANGED <<calVars, passed, failed, hkScan, printed, written, crcData, crcOut, timeVars>>

\* Lines 84-85: comms.send(sample).
CommSend ==
    /\ commPc = "send"
    /\ commPc' = "send_sleep"
    /\ UNCHANGED <<bufferVars, CommFrame, thread_lock, samples, part, sample,
                   cancelledAt, stable, seen>>
    /\ UNCHANGED <<calVars, testVars>>

\* Lines 86-87, 64 and 77: time.sleep_ms(50), back to the top of the loop.
CommSleep ==
    /\ commPc = "send_sleep"
    /\ samples' = <<>>
    /\ frame' = NoneVal
    /\ seen' = {}
    /\ commPc' = "poll"
    /\ UNCHANGED <<bufferVars, CommFrame, thread_lock, part, sample, cancelledAt,
                   stable>>
    /\ UNCHANGED <<calVars, passed, failed, hkScan, printed, written, crcData, crcOut, timeVars>>

\* ------------------------------------------------------- lib/comms/cli.py
\* run(), lines 57-71: a line is read and its handler called.
Dispatch(handlerPc) ==
    /\ commPc = "cli_readline"
    /\ commPc' = handlerPc
    /\ cancelledAt' = "none"

\* dump: cmd_dump calls self.buffer.get_all() (line 181).
CliDump ==
    /\ Dispatch("dump_empty")
    /\ seen' = {stable}
    /\ UNCHANGED <<bufferVars, CommFrame, thread_lock, samples, part, sample, stable>>
    /\ UNCHANGED <<calVars, testVars>>

\* buffer.py lines 48-49: if self.count == 0: return []
DumpEmpty ==
    /\ commPc = "dump_empty"
    /\ commPc' = IF count = 0 THEN "dump_done" ELSE "dump_full"
    /\ UNCHANGED <<bufferVars, CommFrame, thread_lock, samples, part, sample,
                   cancelledAt, stable, seen>>
    /\ UNCHANGED <<calVars, testVars>>

\* buffer.py line 50: if self.count < self.capacity
DumpFull ==
    /\ commPc = "dump_full"
    /\ commPc' = IF count < capacity THEN "dump_prefix" ELSE "dump_suffix"
    /\ UNCHANGED <<bufferVars, CommFrame, thread_lock, samples, part, sample,
                   cancelledAt, stable, seen>>
    /\ UNCHANGED <<calVars, testVars>>

\* buffer.py line 51: return self.buffer[:self.count]
DumpPrefix ==
    /\ commPc = "dump_prefix"
    /\ samples' = Prefix(buffer, count)
    /\ commPc' = "dump_done"
    /\ UNCHANGED <<bufferVars, CommFrame, thread_lock, part, sample, cancelledAt,
                   stable, seen>>
    /\ UNCHANGED <<calVars, testVars>>

\* buffer.py line 53, left operand: self.buffer[self.write_index:]
DumpSuffix ==
    /\ commPc = "dump_suffix"
    /\ part' = Suffix(buffer, write_index)
    /\ commPc' = "dump_rest"
    /\ UNCHANGED <<bufferVars, CommFrame, thread_lock, samples, sample, cancelledAt,
                   stable, seen>>
    /\ UNCHANGED <<calVars, testVars>>

\* buffer.py line 53, right operand and the sum: + self.buffer[:self.write_index]
DumpRest ==
    /\ commPc = "dump_rest"
    /\ samples' = part \o Prefix(buffer, write_index)
    /\ part' = <<>>
    /\ commPc' = "dump_done"
    /\ UNCHANGED <<bufferVars, CommFrame, thread_lock, sample, cancelledAt, stable,
                   seen>>
    /\ UNCHANGED <<calVars, testVars>>

\* cmd_dump lines 183-219: the samples are printed; back in run().
DumpPrint ==
    /\ commPc = "dump_done"
    /\ samples' = <<>>
    /\ seen' = {}
    /\ commPc' = "cli_readline"
    /\ UNCHANGED <<bufferVars, CommFrame, thread_lock, part, sample, cancelledAt,
                   stable>>
    /\ UNCHANGED <<calVars, testVars>>

\* erase: cmd_erase calls self.buffer.clear() (line 222).
CliErase ==
    /\ Dispatch("clear_index")
    /\ UNCHANGED <<bufferVars, CommFrame, thread_lock, samples, part, sample, stable,
                   seen>>
    /\ UNCHANGED <<calVars, testVars>>

\* buffer.py line 62: self.write_index = 0
ClearIndex ==
    /\ commPc = "clear_index"
    /\ write_index' = 0
    /\ commPc' = "clear_count"
    /\ UNCHANGED <<capacity, buffer, count, CommFrame, thread_lock, samples, part,
                   sample, cancelledAt, stable, seen>>
    /\ UNCHANGED <<calVars, testVars>>

\* buffer.py line 63 and cmd_erase line 223: self.count = 0, the message.
ClearCount ==
    /\ commPc = "clear_count"
    /\ count' = 0
    /\ stable' = get_all(buffer, write_index, count', capacity)
    /\ commPc' = "cli_readline"
    /\ UNCHANGED <<capacity, buffer, write_index, CommFrame, thread_lock, samples,
                   part, sample, cancelledAt, seen>>
    /\ UNCHANGED <<calVars, testVars>>

\* stream: cmd_stream, lines 477-481.
CliStream ==
    /\ Dispatch("stream_acquire")
    /\ UNCHANGED <<bufferVars, CommFrame, thread_lock, samples, part, sample, stable,
                   seen>>
    /\ UNCHANGED <<calVars, testVars>>

\* cmd_stream line 482, with self.lock.
StreamAcquire ==
    /\ commPc = "stream_acquire"
    /\ thread_lock = "free"
    /\ thread_lock' = "comm"
    /\ commPc' = "stream_get"
    /\ UNCHANGED <<bufferVars, CommFrame, samples, part, sample, cancelledAt,
                   stable, seen>>
    /\ UNCHANGED <<calVars, testVars>>

\* Mutant of StreamGet: the with block does not end before the write.
StreamGet_KeepsLock ==
    /\ commPc = "stream_get"
    /\ sample' = get_latest(buffer, write_index, count, capacity)
    /\ commPc' = "stream_write"
    /\ UNCHANGED <<bufferVars, CommFrame, thread_lock, samples, part, cancelledAt,
                   stable, seen>>
    /\ UNCHANGED <<calVars, testVars>>

\* cmd_stream line 483 and the end of the with block.
StreamGet ==
    /\ commPc = "stream_get"
    /\ sample' = get_latest(buffer, write_index, count, capacity)
    /\ thread_lock' = "free"
    /\ commPc' = "stream_write"
    /\ UNCHANGED <<bufferVars, CommFrame, samples, part, cancelledAt, stable, seen>>
    /\ UNCHANGED <<calVars, testVars>>

\* cmd_stream lines 485-486: out.write(sample) for a sample of 148 bytes.
StreamWrite ==
    /\ commPc = "stream_write"
    /\ sample' = NoneVal
    /\ commPc' = "stream_sleep"
    /\ UNCHANGED <<bufferVars, CommFrame, thread_lock, samples, part, cancelledAt,
                   stable, seen>>
    /\ UNCHANGED <<calVars, testVars>>

\* cmd_stream line 488: time.sleep_ms(500), then the next turn of the loop.
StreamSleep ==
    /\ commPc = "stream_sleep"
    /\ commPc' = "stream_acquire"
    /\ UNCHANGED <<bufferVars, CommFrame, thread_lock, samples, part, sample,
                   cancelledAt, stable, seen>>
    /\ UNCHANGED <<calVars, testVars>>

\* The pc values of the three streaming loops outside the locked section.
StreamLoopPcs ==
    {"stream_acquire", "stream_write", "stream_sleep", "sensors_stream_read",
     "sensors_stream_sleep", "hk_stream_read", "hk_stream_sleep"}

\* Mutant of StreamInterruptLocked: the lock is not released on the way out.
StreamInterruptLocked_KeepsLock ==
    /\ commPc = "stream_get"
    /\ cancelledAt' = commPc
    /\ commPc' = "cli_readline"
    /\ UNCHANGED <<bufferVars, CommFrame, thread_lock, samples, part, sample, stable,
                   seen>>
    /\ UNCHANGED <<calVars, testVars>>

\* KeyboardInterrupt inside the with block of cmd_stream (lines 482-483): the
\* with statement releases the lock, line 489 catches, cmd_stream returns.
StreamInterruptLocked ==
    /\ commPc = "stream_get"
    /\ thread_lock' = "free"
    /\ cancelledAt' = commPc
    /\ commPc' = "cli_readline"
    /\ UNCHANGED <<bufferVars, CommFrame, samples, part, sample, stable, seen>>
    /\ UNCHANGED <<calVars, testVars>>

\* KeyboardInterrupt anywhere else in a streaming loop (cmd_stream 480-490,
\* cmd_sensors 121-130, cmd_hk 143-153): the handler returns to run().
StreamInterrupt ==
    /\ commPc \in StreamLoopPcs
    /\ cancelledAt' = commPc
    /\ sample' = NoneVal
    /\ commPc' = "cli_readline"
    /\ UNCHANGED <<bufferVars, CommFrame, thread_lock, samples, part, stable, seen>>
    /\ UNCHANGED <<calVars, testVars>>

\* sensors [--stream]: cmd_sensors.
CliSensors ==
    /\ \E handlerPc \in {"sensors_read", "sensors_stream_read"} : Dispatch(handlerPc)
    /\ UNCHANGED <<bufferVars, CommFrame, thread_lock, samples, part, sample, stable,
                   seen>>
    /\ UNCHANGED <<calVars, testVars>>

\* cmd_sensors lines 132-137: one read_sensors(), printed; an exception is
\* caught and printed by run() (lines 75-76).
SensorsRead ==
    /\ commPc = "sensors_read"
    /\ commPc' = "cli_readline"
    /\ UNCHANGED <<bufferVars, CommFrame, thread_lock, samples, part, sample,
                   cancelledAt, stable, seen>>
    /\ UNCHANGED <<calVars, testVars>>

\* cmd_sensors lines 123-126: read_sensors() in the loop; an exception leaves
\* the loop and is caught by run().
SensorsStreamRead ==
    /\ commPc = "sensors_stream_read"
    /\ commPc' = IF read_sensors(ticks).raised THEN "cli_readline"
                 ELSE "sensors_stream_sleep"
    /\ UNCHANGED <<bufferVars, CommFrame, thread_lock, samples, part, sample,
                   cancelledAt, stable, seen>>
    /\ UNCHANGED <<calVars, testVars>>

\* cmd_sensors line 127: time.sleep_ms(500).
SensorsStreamSleep ==
    /\ commPc = "sensors_stream_sleep"
    /\ commPc' = "sensors_stream_read"
    /\ UNCHANGED <<bufferVars, CommFrame, thread_lock, samples, part, sample,
                   cancelledAt, stable, seen>>
    /\ UNCHANGED <<calVars, testVars>>

\* hk [--stream]: cmd_hk.
CliHk ==
    /\ \E handlerPc \in {"hk_read", "hk_stream_read"} : Dispatch(handlerPc)
    /\ UNCHANGED <<bufferVars, CommFrame, thread_lock, samples, part, sample, stable,
                   seen>>
    /\ UNCHANGED <<calVars, testVars>>

\* cmd_hk lines 155-164: one read_all_housekeeping_data(), printed.
HkRead ==
    /\ commPc = "hk_read"
    /\ commPc' = "cli_readline"
    /\ UNCHANGED <<bufferVars, CommFrame, thread_lock, samples, part, sample,
                   cancelledAt, stable, seen>>
    /\ UNCHANGED <<calVars, testVars>>

\* cmd_hk lines 145-149: the read in the loop; an exception leaves the loop.
HkStreamRead ==
    /\ commPc = "hk_stream_read"
    /\ \E scan \in ScanSets, i2cOk \in BOOLEAN :
          commPc' = IF read_all_housekeeping_data(ticks, scan, i2cOk).raised
                    THEN "cli_readline" ELSE "hk_stream_sleep"
    /\ UNCHANGED <<bufferVars, CommFrame, thread_lock, samples, part, sample,
                   cancelledAt, stable, seen>>
    /\ UNCHANGED <<calVars, testVars>>

\* cmd_hk line 150: time.sleep_ms(500).
HkStreamSleep ==
    /\ commPc = "hk_stream_sleep"
    /\ commPc' = "hk_stream_read"
    /\ UNCHANGED <<bufferVars, CommFrame, thread_lock, samples, part, sample,
                   cancelledAt, stable, seen>>
    /\ UNCHANGED <<calVars, testVars>>

\* --------------------------------------- lib/comms/cli.py: calibration
\* Everything the calibration commands leave alone.
CalFrame ==
    <<bufferVars, pushed, thread_lock, adc, ticks, acqPc, acqSample, acqError, samples,
      part, sample, stable, seen, testVars>>

\* The values an operator types for an offset or a slope, and the channels
\* the operator types them for: the first and the last of a list, and for
\* cal-set also the two indices just outside the list.
CalValues == {2}
CalChannels == {0, 3}

\* cmd_cal_set's type_map, lines 337-341.
type_map ==
    [temperature_offset |-> "TEMP_OFFSETS", pressure_slope |-> "PRESSURE_SLOPES",
     pressure_offset |-> "PRESSURE_OFFSETS"]

\* The first arguments an operator types: the three types and one that is none.
CalTypes == {"temperature_offset", "pressure_slope", "pressure_offset", "temperature"}

\* _update_cal lines 256-260: for each name in updates, the first line that
\* starts with "name = [" is replaced by the new list.
UpdateLines(ls, upd) ==
    [i \in 1..Len(ls) |->
        IF /\ ls[i].name \in DOMAIN upd
           /\ ~upd[ls[i].name].none
           /\ \A j \in 1..(i - 1) : ls[j].name # ls[i].name
        THEN CalLine(ls[i].name, upd[ls[i].name].val)
        ELSE ls[i]]

\* What a write of the lines ls that does not complete leaves in the file: the
\* first k lines, with or without a piece of the next.
CutShort(ls) ==
    {Prefix(ls, k) : k \in 0..(Len(ls) - 1)}
        \cup {Append(Prefix(ls, k), TornLine) : k \in 0..(Len(ls) - 1)}

\* cal-set <type> <channel> <value>: run() calls cmd_cal_set(args).
CliCalSet ==
    /\ Dispatch("cal_set")
    /\ answers < MaxAnswers
    /\ \E type \in CalTypes, ch \in CalChannels \cup {-1, 4}, value \in CalValues :
          args' = <<type, ch, value>>
    /\ answers' = answers + 1
    /\ UNCHANGED <<CalFrame, calibration, calFile, updates, lines, calPrompt, fatal,
                   boots>>

\* cmd_cal_set lines 343-345 and 351: a type that is not in type_map is
\* refused; getattr raises AttributeError for a name the module lacks, which
\* run() reports.
CalSetRefused ==
    /\ commPc = "cal_set"
    /\ IF args[1] \in DOMAIN type_map THEN calibration[type_map[args[1]]].none
       ELSE TRUE
    /\ commPc' = "cli_readline"
    /\ args' = <<>>
    /\ UNCHANGED <<CalFrame, cancelledAt, calibration, calFile, updates, lines,
                   calPrompt, fatal, boots, answers>>

\* cmd_cal_set lines 353-355: Invalid channel.
CalSetInvalidChannel ==
    /\ commPc = "cal_set"
    /\ args[1] \in DOMAIN type_map
    /\ ~calibration[type_map[args[1]]].none
    /\ LET current == calibration[type_map[args[1]]].val
       IN  args[2] < 0 \/ args[2] >= Len(current)
    /\ commPc' = "cal_set_invalid"
    /\ UNCHANGED <<CalFrame, cancelledAt, calVars>>

\* cmd_cal_set line 355: return to run().
CalSetReturn ==
    /\ commPc = "cal_set_invalid"
    /\ commPc' = "cli_readline"
    /\ args' = <<>>
    /\ UNCHANGED <<CalFrame, cancelledAt, calibration, calFile, updates, lines,
                   calPrompt, fatal, boots, answers>>

\* Mutant of CalSetAccept: current is the module's own list, not a copy, so
\* current[ch] = value changes the value the readings use.
CalSetAccept_NoCopy ==
    /\ commPc = "cal_set"
    /\ args[1] \in DOMAIN type_map
    /\ ~calibration[type_map[args[1]]].none
    /\ LET var_name == type_map[args[1]]
           current == calibration[var_name].val
       IN  /\ args[2] >= 0 /\ args[2] < Len(current)
           /\ updates' = [NoUpdates EXCEPT
                             ![var_name] = Some([current EXCEPT ![args[2] + 1] = args[3]])]
           /\ calibration' = [calibration EXCEPT ![var_name] = updates'[var_name]]
    /\ commPc' = "cal_read"
    /\ UNCHANGED <<CalFrame, cancelledAt, calFile, args, lines, calPrompt, fatal, boots,
                   answers>>

\* cmd_cal_set lines 351-359: current is a copy of the list in the module,
\* current[ch] = value, and _update_cal({var_name: current}) is called.
CalSetAccept ==
    /\ commPc = "cal_set"
    /\ args[1] \in DOMAIN type_map
    /\ ~calibration[type_map[args[1]]].none
    /\ LET var_name == type_map[args[1]]
           current == calibration[var_name].val
       IN  /\ args[2] >= 0 /\ args[2] < Len(current)
           /\ updates' = [NoUpdates EXCEPT
                             ![var_name] = Some([current EXCEPT ![args[2] + 1] = args[3]])]
    /\ commPc' = "cal_read"
    /\ UNCHANGED <<CalFrame, cancelledAt, calibration, calFile, args, lines, calPrompt,
                   fatal, boots, answers>>

\* cal-start: run() calls cmd_cal_start(args).
CliCalStart ==
    /\ Dispatch("cal_start")
    /\ UNCHANGED <<CalFrame, calVars>>

\* cmd_cal_start lines 269-273: one read_sensors(), then copies of the three
\* lists of the module; an exception goes to run(), which reports it.
CalStartRead ==
    /\ commPc = "cal_start"
    /\ IF read_sensors(ticks).raised
       THEN /\ commPc' = "cli_readline"
            /\ UNCHANGED updates
       ELSE /\ commPc' = "cal_prompt"
            /\ updates' = [name \in DOMAIN calibration |-> Some(calibration[name].val)]
    /\ calPrompt' = 0
    /\ UNCHANGED <<CalFrame, cancelledAt, calibration, calFile, args, lines, fatal,
                   boots, answers>>

\* cmd_cal_start lines 276-318: the prompts, four for each of the three lists
\* in the order of CalNames.  Enter skips the entry (an answer float() refuses
\* asks again and changes nothing).
CalAnswerSkip ==
    /\ commPc = "cal_prompt"
    /\ calPrompt < 12
    /\ calPrompt' = calPrompt + 1
    /\ UNCHANGED <<CalFrame, commPc, cancelledAt, calibration, calFile, args, updates,
                   lines, fatal, boots, answers>>

\* A number is typed: new_...[i] = float(offset_str).
CalAnswerValue ==
    /\ commPc = "cal_prompt"
    /\ calPrompt < 12
    /\ (calPrompt % 4) \in CalChannels
    /\ answers < MaxAnswers
    /\ \E value \in CalValues :
          LET name == CalNames[(calPrompt \div 4) + 1]
              i == calPrompt % 4
          IN  updates' = [updates EXCEPT
                             ![name] = Some([updates[name].val EXCEPT ![i + 1] = value])]
    /\ answers' = answers + 1
    /\ calPrompt' = calPrompt + 1
    /\ UNCHANGED <<CalFrame, commPc, cancelledAt, calibration, calFile, args, lines,
                   fatal, boots>>

\* input() raises at a prompt: EOFError goes to run(), which reports it and
\* reads the next line; KeyboardInterrupt is no Exception, so it leaves run()
\* and communications (main.py lines 69-75, 89) and ends the thread.
CalStartCancel ==
    /\ commPc = "cal_prompt"
    /\ calPrompt < 12
    /\ commPc' \in {"cli_readline", "thread_ended"}
    /\ updates' = NoUpdates
    /\ calPrompt' = 0
    /\ UNCHANGED <<CalFrame, cancelledAt, calibration, calFile, args, lines, fatal,
                   boots, answers>>

\* cmd_cal_start lines 320-324: after the last prompt, one _update_cal call
\* with the three lists.
CalStartUpdate ==
    /\ commPc = "cal_prompt"
    /\ calPrompt = 12
    /\ commPc' = "cal_read"
    /\ UNCHANGED <<CalFrame, cancelledAt, calVars>>

\* _update_cal lines 253-260: the file is read and the lines edited in memory.
CalRead ==
    /\ commPc = "cal_read"
    /\ calFile.exists
    /\ lines' = UpdateLines(calFile.lines, updates)
    /\ commPc' = "cal_open_w"
    /\ UNCHANGED <<CalFrame, cancelledAt, calibration, calFile, args, updates,
                   calPrompt, fatal, boots, answers>>

\* _update_cal line 262: open("lib/calibration.py", "w") empties the file.
CalOpenWrite ==
    /\ commPc = "cal_open_w"
    /\ calFile' = CalFileOf(<<>>)
    /\ commPc' = "cal_write"
    /\ UNCHANGED <<CalFrame, cancelledAt, calibration, args, updates, lines, calPrompt,
                   fatal, boots, answers>>

\* open(..., "w") raises OSError: nothing was touched; run() (or cmd_cal_reset,
\* lines 380-381) reports the error.
CalOpenFail ==
    /\ commPc \in {"cal_open_w", "cal_reset"}
    /\ commPc' = "cli_readline"
    /\ args' = <<>>
    /\ updates' = NoUpdates
    /\ lines' = <<>>
    /\ calPrompt' = 0
    /\ UNCHANGED <<CalFrame, cancelledAt, calibration, calFile, fatal, boots, answers>>

\* _update_cal line 263 (cmd_cal_reset line 374) and the end of the with
\* block: the text is written and the file closed.
CalWrite ==
    /\ commPc = "cal_write"
    /\ calFile' = CalFileOf(lines)
    /\ commPc' = "cal_done"
    /\ UNCHANGED <<CalFrame, cancelledAt, calibration, args, updates, lines, calPrompt,
                   fatal, boots, answers>>

\* f.write raises OSError part of the way: the file keeps what was written;
\* run() (or cmd_cal_reset) reports the error and the CLI goes on.
CalWriteFail ==
    /\ commPc = "cal_write"
    /\ \E ls \in CutShort(lines) : calFile' = CalFileOf(ls)
    /\ commPc' = "cli_readline"
    /\ args' = <<>>
    /\ updates' = NoUpdates
    /\ lines' = <<>>
    /\ calPrompt' = 0
    /\ UNCHANGED <<CalFrame, cancelledAt, calibration, fatal, boots, answers>>

\* cal-reset: run() calls cmd_cal_reset(args).
CliCalReset ==
    /\ Dispatch("cal_reset")
    /\ UNCHANGED <<CalFrame, calVars>>

\* cmd_cal_reset lines 371-373: content = default_calibration, and
\* open("lib/calibration.py", "w") empties the file.
CalResetOpen ==
    /\ commPc = "cal_reset"
    /\ lines' = default_calibration.lines
    /\ calFile' = CalFileOf(<<>>)
    /\ commPc' = "cal_write"
    /\ UNCHANGED <<CalFrame, cancelledAt, calibration, args, updates, calPrompt, fatal,
                   boots, answers>>

\* The process starts with the file as it is on the flash: main.py line 8 and
\* lib/core/sensors.py line 5 import lib.calibration, outside any try.
Boot(file) ==
    /\ boots < MaxBoots
    /\ boots' = boots + 1
    /\ calFile' = file
    /\ fatal' = ImportError(file)
    /\ calibration' = IF ImportError(file) = "none" THEN ImportCalibration(file)
                      ELSE NoUpdates
    /\ commPc' = IF ImportError(file) = "none" THEN "cli_readline" ELSE "halted"
    /\ cancelledAt' = "none"
    /\ args' = <<>>
    /\ updates' = NoUpdates
    /\ lines' = <<>>
    /\ calPrompt' = 0
    /\ UNCHANGED <<CalFrame, answers>>

\* Lines 326-328, 361-364, 376-379: the message, two seconds, machine.reset().
CalReboot ==
    /\ commPc = "cal_done"
    /\ Boot(calFile)

\* The power goes while _update_cal or cmd_cal_reset is rewriting the file;
\* during the write itself the file keeps what has reached it.
PowerLoss ==
    \/ /\ commPc \in {"cal_read", "cal_open_w", "cal_reset", "cal_write", "cal_done"}
       /\ Boot(calFile)
    \/ /\ commPc = "cal_write"
       /\ \E ls \in CutShort(lines) : Boot(CalFileOf(ls))

cmd_cal_set == CliCalSet \/ CalSetRefused \/ CalSetInvalidChannel \/ CalSetReturn \/ CalSetAccept

cmd_cal_start ==
    \/ CliCalStart \/ CalStartRead \/ CalAnswerSkip \/ CalAnswerValue \/ CalStartCancel
    \/ CalStartUpdate

_update_cal == CalRead \/ CalOpenWrite \/ CalOpenFail \/ CalWrite \/ CalWriteFail

cmd_cal_reset == CliCalReset \/ CalResetOpen

\* ------------------------------------------ lib/comms/cli.py: cmd_self_test
\* The range tests of lines 394, 403, 417-420 and 441, in the model's units
\* (C; 4 Pa, so -0.5 kPa is -125 and 5 kPa is 1250; mV, mA, mW).
TempInRange(temp) == -100 < temp /\ temp < 300
PressureInRange(pressure) == -125 < pressure /\ pressure < 1250
InaInRange(d) ==
    /\ 0 < d[1] /\ d[1] < 30000
    /\ -10000 < d[2] /\ d[2] < 20000
    /\ 0 < d[3] /\ d[3] < 600000
    /\ -40 < d[4] /\ d[4] < 125
HkTempInRange(temp) == -100 < temp /\ temp < 150

\* A pair of counters, as the three parts of cmd_self_test add to them.
Tally(p, f) == [passed |-> p, failed |-> f]

\* Lines 389-411: the science sensors; r is what read_sensors() did.
SelfTestSensors(r) ==
    IF r.raised THEN Tally(0, 8)
    ELSE LET t == r.val.temperatures
             q == r.val.pressures
             p == Cardinality({i \in DOMAIN t : TempInRange(t[i])})
                    + Cardinality({i \in DOMAIN q : PressureInRange(q[i])})
         IN  Tally(p, Len(r.val.temperatures) + Len(r.val.pressures) - p)

\* Lines 413-449: the housekeeping sensors; h is what
\* read_all_housekeeping_data() did.
SelfTestHousekeeping(h) ==
    IF h.raised THEN Tally(0, 12)
    ELSE LET d == h.val.ina238_data
             t == h.val.max6634_temperatures
             p == Cardinality({i \in DOMAIN d : InaInRange(d[i])})
                    + Cardinality({i \in DOMAIN t : HkTempInRange(t[i])})
         IN  Tally(p, Len(h.val.ina238_data) + Len(h.val.max6634_temperatures) - p)

\* Lines 451-463: the buffer.
SelfTestBuffer == IF capacity > 0 THEN Tally(1, 0) ELSE Tally(0, 1)

\* self-test: run() calls cmd_self_test(args); lines 384-387.
CliSelfTest ==
    /\ Dispatch("self_test")
    /\ passed' = 0
    /\ failed' = 0
    /\ hkScan' = {}
    /\ UNCHANGED <<bufferVars, CommFrame, thread_lock, samples, part, sample, stable,
                   seen, calVars, printed, written, crcVars>>

\* Lines 389-463: the three parts, each in its own try / except Exception.
SelfTestRun ==
    /\ commPc = "self_test"
    /\ \E scan \in ScanSets, i2cOk \in BOOLEAN :
          LET s == SelfTestSensors(read_sensors(ticks))
              h == SelfTestHousekeeping(read_all_housekeeping_data(ticks, scan, i2cOk))
              b == SelfTestBuffer
          IN  /\ passed' = s.passed + h.passed + b.passed
              /\ failed' = s.failed + h.failed + b.failed
              /\ hkScan' = scan
    /\ commPc' = "self_test_results"
    /\ UNCHANGED <<bufferVars, CommFrame, thread_lock, samples, part, sample,
                   cancelledAt, stable, seen, calVars, printed, written, crcVars>>

\* Lines 465-473: the RESULTS report; back in run().
SelfTestResults ==
    /\ commPc = "self_test_results"
    /\ commPc' = "cli_readline"
    /\ passed' = 0
    /\ failed' = 0
    /\ hkScan' = {}
    /\ UNCHANGED <<bufferVars, CommFrame, thread_lock, samples, part, sample,
                   cancelledAt, stable, seen, calVars, printed, written, crcVars>>

cmd_self_test == CliSelfTest \/ SelfTestRun \/ SelfTestResults

communications ==
    \/ CommPollUsb \/ CommPollNoUsb \/ CommAcquire \/ CommSnapshot \/ CommSend
    \/ CommSleep

cmd_dump == CliDump \/ DumpEmpty \/ DumpFull \/ DumpPrefix \/ DumpSuffix \/ DumpRest \/ DumpPrint

cmd_erase == CliErase \/ ClearIndex \/ ClearCount

cmd_stream ==
    \/ CliStream \/ StreamAcquire \/ StreamGet \/ StreamWrite \/ StreamSleep
    \/ StreamInterruptLocked \/ StreamInterrupt

cmd_sensors == CliSensors \/ SensorsRead \/ SensorsStreamRead \/ SensorsStreamSleep

cmd_hk == CliHk \/ HkRead \/ HkStreamRead \/ HkStreamSleep

CLI_run == cmd_dump \/ cmd_erase \/ cmd_stream \/ cmd_sensors \/ cmd_hk

\* --------------------------------------------------------- main.py: main()
\* Lines 96-104: the managers and the buffer are built, the communications
\* thread is started, sensor_acquisition runs in the main thread.  The class
\* bound to ADS1118 in lib/core/sensors is the driver, or the FakeADC the
\* tests put in its place.
Init ==
    /\ \E cap \in 1..MaxTaskCapacity : BufferInit(cap)
    /\ pushed = <<>>
    /\ thread_lock = "free"
    /\ adc \in {"ADS1118", "FakeADC"}
    /\ ticks = 0
    /\ acqPc = "read_sensors"
    /\ acqSample = NoArgs
    /\ acqError = "none"
    /\ commPc = "poll"
    /\ samples = <<>>
    /\ part = <<>>
    /\ sample = NoneVal
    /\ cancelledAt = "none"
    /\ stable = <<>>
    /\ seen = {}
    /\ CalInit

Next == sensor_acquisition \/ communications \/ CLI_run

Spec == Init /\ [][Next]_vars

\* The arguments drawn for a push: lists shorter and longer than their
\* groups, no lists at all, and timestamps format "I" does not hold.
PushArgs ==
    {[NoArgs EXCEPT !.timestamp = Some(7)],
     [NoArgs EXCEPT !.timestamp = Some(7), !.temperatures = Some(<<1>>),
                    !.hk_temps = Some(<<1, 2, 3, 4, 5>>),
                    !.hk_voltages = Some(<<1, 2, 3, 4, 5, 6, 7>>)],
     [NoArgs EXCEPT !.timestamp = Some(2147483647), !.pressures = Some(<<>>),
                    !.hk_powers = Some(<<1, 2, 3, 4, 5>>)],
     [NoArgs EXCEPT !.timestamp = Some(-1)],
     [NoArgs EXCEPT !.timestamp = Some(-1), !.temperatures = Some(<<1, 2, 3, 4, 5>>)]}

\* Lines 21-26 with the values of the cycle drawn, not read from the sensors.
PushDraw ==
    /\ acqPc = "sleep"
    /\ ticks + 1 < MaxCycles
    /\ ticks' = ticks + 1
    /\ acqSample' \in PushArgs
    /\ acqPc' = "acquire"
    /\ UNCHANGED <<bufferVars, pushed, thread_lock, adc, acqError, commPc, samples,
                   part, sample, cancelledAt, stable, seen>>
    /\ UNCHANGED <<calVars, testVars>>

InitPush ==
    /\ \E cap \in 1..MaxTaskCapacity : BufferInit(cap)
    /\ pushed = <<>>
    /\ thread_lock = "free"
    /\ adc = "FakeADC"
    /\ ticks = 0
    /\ acqPc = "acquire"
    /\ acqSample \in PushArgs
    /\ acqError = "none"
    /\ commPc = "poll"
    /\ samples = <<>>
    /\ part = <<>>
    /\ sample = NoneVal
    /\ cancelledAt = "none"
    /\ stable = <<>>
    /\ seen = {}
    /\ CalInit

NextPush ==
    \/ PushDraw \/ AcqAcquire \/ AcqPackRaise \/ AcqStore \/ AcqAdvance \/ AcqBump
    \/ CommPollNoUsb \/ CommAcquire \/ CommSnapshot \/ CommSend \/ CommSleep

\* The with block of sensor_acquisition run on drawn arguments, beside the
\* loop of communications.
SpecPush == InitPush /\ [][NextPush]_vars

\* The acquisition thread alone, its cycles timed.
SpecAcq == Init /\ [][sensor_acquisition_timed]_vars

\* The two threads with an operator who types only dump.
SpecDump == Init /\ [][sensor_acquisition \/ communications \/ cmd_dump]_vars

\* Each thread runs on a core of its own (_thread.start_new_thread, line 103):
\* a thread that can take a step eventually takes one.
FairSpec ==
    /\ Spec
    /\ WF_vars(sensor_acquisition)
    /\ WF_vars(communications \/ CLI_run)

\* The CLI with an operator who types only calibration commands, the other
\* thread left aside; the flash holds the file as shipped, or no file.
InitCal ==
    /\ BufferInit(1)
    /\ pushed = <<>>
    /\ thread_lock = "free"
    /\ adc \in {"ADS1118", "FakeADC"}
    /\ ticks = 0
    /\ acqPc = "idle"
    /\ acqSample = NoArgs
    /\ acqError = "none"
    /\ samples = <<>>
    /\ part = <<>>
    /\ sample = NoneVal
    /\ cancelledAt = "none"
    /\ stable = <<>>
    /\ seen = {}
    /\ calFile \in {default_calibration, NoCalFile}
    /\ fatal = ImportError(calFile)
    /\ calibration = IF fatal = "none" THEN ImportCalibration(calFile) ELSE NoUpdates
    /\ commPc = IF fatal = "none" THEN "cli_readline" ELSE "halted"
    /\ boots = 0
    /\ answers = 0
    /\ CalIdle

NextCal ==
    cmd_cal_set \/ cmd_cal_start \/ _update_cal \/ cmd_cal_reset \/ CalReboot \/ PowerLoss

SpecCal == InitCal /\ [][NextCal]_vars

\* The two threads with an operator who types only self-test.
SpecSelfTest == Init /\ [][sensor_acquisition \/ communications \/ cmd_self_test]_vars

\* The timestamps (field 0) of a list of packed records.
Timestamps(lst) == [i \in 1..Len(lst) |-> lst[i][1]]

\* C1: once more than capacity records were pushed with no clear in between,
\* get_all() is exactly the last capacity pushed records, oldest first, and
\* get_latest() is the very last pushed record.
C1_LastNInOrder ==
    Len(pushed) > capacity =>
        /\ get_all(buffer, write_index, count, capacity) = LastN(pushed, capacity)
        /\ get_latest(buffer, write_index, count, capacity) = Some(pushed[Len(pushed)])

\* C1's scenario: capacity 3, timestamps 1, 2, 3, 4 pushed; get_all gives 2, 3, 4.
C1_Witness ==
    /\ capacity = 3
    /\ Timestamps(pushed) = <<1, 2, 3, 4>>
    /\ Timestamps(get_all(buffer, write_index, count, capacity)) = <<2, 3, 4>>
    /\ get_latest(buffer, write_index, count, capacity).val[1] = 4

\* C2: after p pushes on a fresh (or just cleared) buffer, size() = min(p, N)
\* and is_full() = (p >= N); so a push on a full buffer leaves size() at N.
C2_SizeIsMinPushesCapacity ==
    /\ size(count) = Min(Len(pushed), capacity)
    /\ is_full(count, capacity) <=> (Len(pushed) >= capacity)

\* A push on a full buffer has happened: more pushes than slots.
C2_Witness ==
    /\ Len(pushed) = capacity + 1
    /\ size(count) = capacity
    /\ is_full(count, capacity)

\* C3: after any sequence of complete add_sample and clear calls, the counters
\* are in range, write_index = count while the buffer is not full, the slot
\* before write_index holds the newest record (write_index is the next slot
\* written), a full buffer has its oldest retained record at write_index, and
\* get_latest() is None exactly when count = 0.
C3_BufferInvariant ==
    /\ 0 <= count /\ count <= capacity
    /\ 0 <= write_index /\ write_index < capacity
    /\ count < capacity => write_index = count
    /\ count > 0 => buffer[((write_index - 1) % capacity) + 1] = pushed[Len(pushed)]
    /\ count = capacity =>
          buffer[write_index + 1] = pushed[Len(pushed) - capacity + 1]
    /\ get_latest(buffer, write_index, count, capacity).none <=> (count = 0)

\* A buffer that was filled, cleared (slot 2 still holds an old record) and
\* pushed to once since.
C3_Witness ==
    /\ capacity = 3
    /\ count = 1 /\ write_index = 1
    /\ buffer[2] # <<>>
    /\ Len(pushed) = 1

\* ------------------------------------------------------ the two threads
\* The pc values at which the second thread is inside a Buffer operation.
CommInBuffer == {"snapshot", "stream_get", "clear_index", "clear_count"} \cup DumpPcs

\* The pc values at which a thread is inside a sensor read, a transport or
\* stdout write, a sleep, or run()'s readline.
AcqBlocking == {"read_sensors", "read_housekeeping", "sleep", "stopped"}
CommBlocking ==
    {"send", "send_sleep", "cli_readline", "dump_done", "stream_write", "stream_sleep",
     "sensors_read", "sensors_stream_read", "sensors_stream_sleep", "hk_read",
     "hk_stream_read", "hk_stream_sleep"}

\* C4: every list get_all() hands to the communications task or to cmd_dump is
\* the retained sequence the buffer had at one instant between complete pushes
\* (here even counting the push in progress, if any, as already applied).
C4_SnapshotIsOneInstant ==
    commPc \in {"send", "dump_done"} =>
        \/ samples \in seen
        \/ acqPc \in AcqInBuffer /\ samples = AfterPendingPush

\* C5: a thread inside add_sample, get_all, get_latest or clear holds thread_lock.
C5_BufferOpsUnderLock ==
    /\ acqPc \in AcqInBuffer => thread_lock = "acq"
    /\ commPc \in CommInBuffer => thread_lock = "comm"

\* C6: a sensor read failure never stops the acquisition loop.
C6_ReadFailureNeverStopsLoop ==
    acqPc # "stopped"

\* C7: with every device present and responding, read_pressure gives a number
\* for each of the four channels, so no cycle ends in the TypeError of a
\* missing reading and every cycle goes on to its push.
C7_FourPressuresEveryCycle ==
    ~(acqPc = "stopped" /\ acqError = "TypeError")

\* C8: the communications task always comes back to its poll loop.
C8_BackToPollLoop ==
    []<>(commPc = "poll")

\* C9: a thread inside a sensor read, a transport or stdout write, a sleep or
\* the prompt does not hold thread_lock.
C9_NoLockAcrossBlockingCalls ==
    /\ acqPc \in AcqBlocking => thread_lock # "acq"
    /\ commPc \in CommBlocking => thread_lock # "comm"

\* cmd_stream is writing a sample it fetched while the acquisition thread is
\* inside add_sample with the lock.
C9_Witness ==
    /\ commPc = "stream_write"
    /\ ~sample.none
    /\ acqPc = "store"
    /\ thread_lock = "acq"

\* C10: after a KeyboardInterrupt in a streaming loop the second thread is back
\* in run() and does not hold thread_lock.
C10_CancelLeavesLockFree ==
    cancelledAt # "none" => (commPc = "cli_readline" /\ thread_lock # "comm")

\* The stream was cancelled inside its locked section, and the acquisition
\* thread has since taken the lock and is pushing.
C10_Witness ==
    /\ cancelledAt = "stream_get"
    /\ commPc = "cli_readline"
    /\ thread_lock = "acq"
    /\ acqPc = "bump"

\* ------------------------------------------------------------ calibration
\* A file with the three assignments, four values each, and nothing torn.
Complete(file) ==
    /\ file.exists
    /\ Len(file.lines) = 3
    /\ \A i \in 1..3 : file.lines[i].name = CalNames[i] /\ Len(file.lines[i].values) = 4

\* The file assigns exactly the lists vals (name -> Some(list)).
FileHolds(file, vals) ==
    \A name \in DOMAIN vals : Assigned(file.lines, name) = vals[name]

\* cmd_cal_start is the command in progress (cmd_cal_set has args, cmd_cal_reset
\* has no updates).
InCalStart == args = <<>> /\ updates # NoUpdates

\* C11: once a rewrite of lib/calibration.py has failed and been reported
\* (the CLI is back at its prompt), or the process has stopped during it and
\* started again, the file is a complete file: never empty, cut short or torn.
C11_RewriteIsAllOrNothing ==
    (commPc = "cli_readline" \/ (commPc = "halted" /\ boots > 0)) => Complete(calFile)

\* C12: cal-set with a channel outside 0..3 (4, -1) is refused and returns
\* with the file, the values in memory and the boot count untouched; cal-set with a valid type and channel 3 is accepted, and
\* when it is done the file assigns the value to entry 3 of the list.
C12_ChannelBoundary ==
    [][/\ (commPc = "cal_set" /\ args[1] \in DOMAIN type_map) =>
            /\ args[2] = 3 =>
                  /\ commPc' = "cal_read"
                  /\ updates'[type_map[args[1]]].val[4] = args[3]
            /\ args[2] \notin 0..3 =>
                  /\ commPc' \in {"cal_set_invalid", "cli_readline"}
                  /\ UNCHANGED <<calFile, calibration, boots>>
       /\ commPc = "cal_set_invalid" =>
            commPc' = "cli_readline" /\ UNCHANGED <<calFile, calibration, boots>>
       /\ (commPc' = "cal_done" /\ args' # <<>>) =>
            IF args'[2] = 3
            THEN /\ ~Assigned(calFile'.lines, type_map[args'[1]]).none
                 /\ Assigned(calFile'.lines, type_map[args'[1]]).val[4] = args'[3]
            ELSE TRUE
      ]_vars

\* C13: no step of cal-set, cal-start or cal-reset changes the lists of the
\* imported module, which read_temperature and read_pressure apply; they
\* change only with a restart, which loads what the file then holds.
C13_InMemoryUntilRestart ==
    [][/\ boots' = boots => calibration' = calibration
       /\ (boots' # boots /\ fatal' = "none") =>
              calibration' = ImportCalibration(calFile')
      ]_vars

\* cal-set has written a new temperature offset for channel 0; until the
\* restart read_temperature(0) still adds the offset loaded at start.
C13_Witness ==
    /\ commPc = "cal_done"
    /\ args # <<>>
    /\ Assigned(calFile.lines, "TEMP_OFFSETS") = Some(<<2, 0, 0, 0>>)
    /\ calibration["TEMP_OFFSETS"] = Some(<<0, 0, 0, 0>>)
    /\ read_temperature(0) = Returned(thermocouple_read_temperature(0))

\* C14: the file does not change while cal-start reads the sensors and asks
\* its prompts, and when the one write after the last prompt is over - done,
\* failed or cut by a stop - the file assigns either all three new lists or
\* all three lists as they were.
C14_WalkthroughAppliedAtOnce ==
    [][/\ commPc \in {"cal_start", "cal_prompt"} => calFile' = calFile
       /\ (InCalStart /\ commPc = "cal_write" /\ commPc' # "cal_write") =>
              \/ FileHolds(calFile', updates)
              \/ FileHolds(calFile', calibration)
      ]_vars

\* C15: the process never ends at import time over the calibration file, and
\* the running process has all three lists.
C15_StartupFallsBackToDefaults ==
    /\ fatal = "none"
    /\ \A name \in DOMAIN calibration : ~calibration[name].none

\* ---------------------------------------------------------------- self-test
\* What the science part of cmd_self_test counts as passed in this state.
SensorsPassed == SelfTestSensors(read_sensors(ticks)).passed

\* C16: cmd_self_test always gets to its RESULTS report, and when no
\* housekeeping device is on the bus no housekeeping channel is counted as
\* passed (passed holds the science channels and the buffer only).
C16_SelfTestAlwaysReports ==
    [][(commPc = "self_test" /\ commPc' # commPc) =>
          /\ commPc' = "self_test_results"
          /\ hkScan' \cap AllAddresses = {} =>
                passed' = SensorsPassed + SelfTestBuffer.passed
      ]_vars

\* C17: a housekeeping device whose address is missing from i2c.scan() is
\* never counted as passed: passed holds at most the science channels, the
\* buffer and one per housekeeping device on the bus.
C17_AbsentNeverPassed ==
    commPc = "self_test_results" =>
        passed <= SensorsPassed + SelfTestBuffer.passed
                    + Cardinality(hkScan \cap AllAddresses)

\* ------------------------------------------------------- pack and unpack
\* C18: a block whose length is not 148 bytes is never decoded: cmd_dump
\* prints no field of it, assigns none, and goes on with the next element
\* (every element of 148 bytes is decoded), and cmd_stream hands to
\* out.write() nothing but the sample it holds, and only if that is 148
\* bytes long.
C18_WrongLengthNeverDecoded ==
    [][/\ printed' # <<>> =>
            /\ Len(printed') = Len(samples')
            /\ \A idx \in DOMAIN printed' :
                  IF ByteLen(samples'[idx]) = 148
                  THEN /\ printed'[idx].out = "fields"
                       /\ printed'[idx].fields.timestamp = samples'[idx][1]
                  ELSE /\ printed'[idx].out \in {"none", "error"}
                       /\ printed'[idx].fields = NoFields
       /\ written' # written =>
            /\ ~sample.none
            /\ ByteLen(sample.val) = 148
            /\ written' = Append(written, sample.val)
       /\ (~sample.none /\ ByteLen(sample.val) # 148) => written' = written
      ]_vars

\* cmd_stream wrote a sample, then cmd_dump met a block of 144 bytes in front
\* of a stored record and printed the error line for the one and the fields
\* of the other.
C18_Witness ==
    /\ Len(printed) = 2
    /\ ByteLen(samples[1]) = 144
    /\ printed[1].out = "error"
    /\ printed[2].out = "fields"
    /\ written # <<>>

\* x is a single-precision number: a multiple of the spacing at its size.
Representable(x) == IF x < 0 THEN (0 - x) % Ulp(0 - x) = 0 ELSE x % Ulp(x) = 0

\* The arguments a are a record of the layout: a timestamp, 4 + 4 + 4 values
\* and 6 + 6 + 6 + 6 values, each one a single-precision number.
Canonical(a) ==
    /\ ~a.timestamp.none
    /\ a.timestamp.val \in 0..2147483647
    /\ \A g \in {"temperatures", "pressures", "hk_temps"} :
          IF a[g].none THEN FALSE
          ELSE Len(a[g].val) = 4 /\ \A i \in 1..4 : Representable(a[g].val[i])
    /\ \A g \in {"hk_voltages", "hk_currents", "hk_powers", "hk_ina_temps"} :
          IF a[g].none THEN FALSE
          ELSE Len(a[g].val) = 6 /\ \A i \in 1..6 : Representable(a[g].val[i])

\* C19: when the arguments of the last add_sample are a record of the
\* layout, what cmd_dump decodes of the record stored for them is the same
\* timestamp and the same eight groups, value for value.
C19_RoundTrip ==
    (printed # <<>> /\ pushed # <<>> /\ Canonical(acqSample)) =>
        /\ printed[Len(printed)].out = "fields"
        /\ printed[Len(printed)].fields =
              [timestamp |-> acqSample.timestamp.val,
               temps |-> acqSample.temperatures.val,
               pressures |-> acqSample.pressures.val,
               hk_temps |-> acqSample.hk_temps.val,
               hk_voltages |-> acqSample.hk_voltages.val,
               hk_currents |-> acqSample.hk_currents.val,
               hk_powers |-> acqSample.hk_powers.val,
               hk_ina_temps |-> acqSample.hk_ina_temps.val]

\* A record of the layout with the largest timestamp and values above 2^24
\* has been pushed and dumped.
C19_Witness ==
    /\ printed # <<>>
    /\ pushed # <<>>
    /\ Canonical(acqSample)
    /\ acqSample.timestamp.val = 2147483647
    /\ acqSample.temperatures.val[1] = 16777218
    /\ printed[Len(printed)].fields.hk_ina_temps = <<41, 42, 43, 44, 45, 46>>

\* C20: after add_sample with a timestamp (and, where lists are given, six
\* housekeeping temperatures), get_latest() unpacks with "<I4f4f6f6f6f6f6f":
\* field 0 is the timestamp, field 1 temperatures[0], field 4 pressures[0].
C20_TestLayoutDecodes ==
    (pushed # <<>> /\ (IF acqSample.hk_temps.none THEN TRUE
                       ELSE Len(acqSample.hk_temps.val) = 6)) =>
        LET latest   == get_latest(buffer, write_index, count, capacity)
            unpacked == unpack(TestFmt, latest.val)
        IN  /\ ~latest.none
            /\ ~unpacked.raised
            /\ unpacked.val[1] = acqSample.timestamp.val
            /\ acqSample.temperatures.none \/ unpacked.val[2] = acqSample.temperatures.val[1]
            /\ acqSample.pressures.none \/ unpacked.val[5] = acqSample.pressures.val[1]

\* ------------------------------------------------------------- the framing
\* C21: for a list that is not empty buffer_crc16 returns the records joined
\* in the order given, followed by exactly two bytes, the low byte and then
\* the high byte of what crc16 returned for the joined records; the result
\* is a function of the list.
C21_FrameIsPayloadThenCrcLittleEndian ==
    (~crcData.none /\ crcData.val # <<>>) =>
        /\ ~frame.none
        /\ ~crcOut.none
        /\ Len(frame.val) = Len(Join(crcData.val)) + 2
        /\ SubSeq(frame.val, 1, Len(frame.val) - 2) = Join(crcData.val)
        /\ frame.val[Len(frame.val) - 1] = crcOut.val % 256
        /\ frame.val[Len(frame.val)] = crcOut.val \div 256
        /\ crcOut.val = crc16(Join(crcData.val), 40961, 65535)
        /\ frame = buffer_crc16(crcData.val)

\* Two records were framed, the second the bytes "123456789", whose checksum
\* 0x4B37 has two different bytes.
C21_Witness ==
    /\ ~crcData.none
    /\ Len(crcData.val) = 2
    /\ crcData.val[1] = <<1, 2>>
    /\ crcData.val[2] = <<49, 50, 51, 52, 53, 54, 55, 56, 57>>
    /\ ~frame.none
    /\ Len(frame.val) = 13

\* C22: buffer_crc16([]) is None, and the communications task gets to
\* comms.send only from a snapshot that is not empty, with the frame made of
\* it (148 bytes a record and the two of the checksum); a turn of its loop
\* that finds the buffer empty goes back to the top with no frame.
C22_NothingSentWhenEmpty ==
    [][/\ buffer_crc16(<<>>) = NoneVal
       /\ (commPc = "snapshot" /\ commPc' = "send") =>
             /\ count > 0
             /\ samples' # <<>>
             /\ ~frame'.none
             /\ Len(frame'.val) = 148 * Len(samples') + 2
             /\ SubSeq(frame'.val, 1, 4) = U32Bytes(samples'[1][1])
       /\ (commPc = "snapshot" /\ count = 0) =>
             (commPc' \in {"snapshot", "poll"} /\ frame'.none)
       /\ commPc' = "send" => commPc \in {"snapshot", "send"}
      ]_vars

\* The communications task is about to send the frame of two records.
C22_Witness ==
    /\ commPc = "send"
    /\ Len(samples) = 2
    /\ ~frame.none
    /\ Len(frame.val) = 298

\* C23: crc16 with its defaults applied to the single byte 0x00 returns
\* 0x40BF (16575).
C23_CrcOfZeroByte ==
    (~crcData.none /\ Join(crcData.val) = <<0>>) =>
        /\ crcOut = Some(16575)
        /\ frame = Some(<<0, 191, 64>>)

\* C23 as stated: crc16 of the single byte 0x00 is 0xE085 (57477).
C23_CrcOfZeroByteIsE085 ==
    (~crcData.none /\ Join(crcData.val) = <<0>>) => crcOut = Some(57477)

\* buffer_crc16 was called with the one record b"\x00".
C23_Witness ==
    /\ crcData = Some(<< <<0>> >>)
    /\ ~crcOut.none
    /\ ~frame.none

\* ---------------------------------------------------------------- the cycle
\* C24: the duration slept at the end of a cycle is max(0, 500 - elapsed):
\* never negative, 0 when the cycle took 500 ms or more, the rest of the 500
\* ms otherwise.
C24_SleepIsRestOfPeriod ==
    ~sleep_time.none =>
        /\ ~elapsed.none
        /\ sleep_time.val >= 0
        /\ elapsed.val >= 500 => sleep_time.val = 0
        /\ elapsed.val < 500 => sleep_time.val = 500 - elapsed.val

\* A cycle that pushed a record took 900 ms and the acquisition went on with
\* no sleep.
C24_Witness ==
    /\ elapsed = Some(900)
    /\ sleep_time = Some(0)
    /\ count > 0
    /\ acqPc = "read_sensors"

\* ------------------------------------------------------------------ erase
\* C25: clear(), called by cmd_erase, sets write_index and count to 0 and
\* leaves the capacity and the slots as they are; right after it size() is 0,
\* is_full() is false, get_all() is empty and get_latest() is None, whatever
\* the buffer held.
C25_ClearResetsIndexAndCount ==
    [][(pushed # <<>> /\ pushed' = <<>>) =>
          /\ write_index' = 0
          /\ count' = 0
          /\ capacity' = capacity
          /\ buffer' = buffer
          /\ size(count') = 0
          /\ ~is_full(count', capacity')
          /\ get_all(buffer', write_index', count', capacity') = <<>>
          /\ get_latest(buffer', write_index', count', capacity') = NoneVal
      ]_vars

\* A buffer of two slots that had wrapped has been erased: the records are
\* still in the slots and nothing is returned.
C25_Witness ==
    /\ capacity = 2
    /\ pushed = <<>>
    /\ count = 0
    /\ write_index = 0
    /\ buffer[1] # <<>>
    /\ buffer[2] # <<>>

\* C28: whenever neither an add_sample nor an erase is in progress, a buffer
\* that is not full has write_index = count, so that get_all() and
\* get_latest() return what was pushed since the erase.
C28_EraseRacesKeepIndexAndCount ==
    (acqPc \notin AcqInBuffer /\ commPc \notin {"clear_index", "clear_count"}) =>
        (count < capacity => write_index = count)

\* ------------------------------------------------------------ the encoding
\* C26: every slot add_sample writes holds 148 bytes whatever the lengths of
\* the lists, and a push whose packing fails changes no field of the buffer
\* and ends with the lock free.
C26_OnlyWholeRecordsReachBuffer ==
    [][/\ \A i \in 1..capacity :
            buffer'[i] # buffer[i] =>
                /\ Len(RecordBytes(buffer'[i])) = 148
                /\ ByteLen(buffer'[i]) = calcsize(DumpFmt)
                /\ ~PackFails(acqSample, ticks)
       /\ (acqPc \in AcqInBuffer /\ PackFails(acqSample, ticks)) =>
            /\ UNCHANGED <<capacity, buffer, write_index, count>>
            /\ acqPc' # acqPc => (acqPc' = "stopped" /\ thread_lock' = "free")
       /\ acqPc' = "stopped" => thread_lock' # "acq"
      ]_vars

\* A push with timestamp -1 failed after one that was stored: the thread has
\* stopped, the lock is free and the buffer holds the one record.
C26_Witness ==
    /\ acqPc = "stopped"
    /\ acqError = "struct.error"
    /\ acqSample.timestamp = Some(-1)
    /\ thread_lock = "free"
    /\ count = 1
    /\ Len(RecordBytes(buffer[1])) = 148

\* ------------------------------------------------- cal-set and its restart
\* C27: the restart that follows a cal-set <type> <ch> <value> which reported
\* success leaves entry ch of the selected list equal to value, every other
\* entry of the three lists as it was, and four entries in each list.
C27_CalSetChangesOneEntry ==
    [][(commPc = "cal_done" /\ args # <<>> /\ boots' = boots + 1) =>
          LET var_name == type_map[args[1]]
          IN  /\ fatal' = "none"
              /\ \A name \in DOMAIN calibration :
                    /\ ~calibration'[name].none
                    /\ Len(calibration'[name].val) = 4
                    /\ calibration'[name].val =
                          IF name = var_name
                          THEN [calibration[name].val EXCEPT ![args[2] + 1] = args[3]]
                          ELSE calibration[name].val
      ]_vars

\* ------------------------------------------------------ self-test totals
\* C29: when cmd_self_test reports, passed + failed is 19: one per science
\* channel (8), one per INA238 (5), one per MAX6634 (5) and one for the buffer.
C29_SelfTestTotalIsNineteen ==
    commPc = "self_test_results" =>
        passed + failed = 8 + Len(INA238_ADDRESSES) + Len(MAX6634_ADDRESSES) + 1

\* ------------------------------------------- housekeeping in the record
\* C30: the record stored in a cycle holds, at the positions cmd_dump
\* decodes, every housekeeping value read in that cycle: the five MAX6634
\* temperatures and the four columns of the five INA238 tuples.
C30_EveryHousekeepingValueStored ==
    [][(acqPc = "store" /\ acqPc' = "advance") =>
          LET fields == DumpFields(unpack(DumpFmt, buffer'[write_index + 1]).val)
          IN  /\ Len(acqSample.hk_temps.val) = Len(MAX6634_ADDRESSES)
              /\ Len(acqSample.hk_voltages.val) = Len(INA238_ADDRESSES)
              /\ \A i \in 1..Len(INA238_ADDRESSES) :
                    /\ fields.hk_voltages[i] = F32(acqSample.hk_voltages.val[i])
                    /\ fields.hk_currents[i] = F32(acqSample.hk_currents.val[i])
                    /\ fields.hk_powers[i] = F32(acqSample.hk_powers.val[i])
                    /\ fields.hk_ina_temps[i] = F32(acqSample.hk_ina_temps.val[i])
              /\ Len(fields.hk_temps) >= Len(acqSample.hk_temps.val)
              /\ \A i \in 1..Len(fields.hk_temps) :
                    fields.hk_temps[i] = F32(acqSample.hk_temps.val[i])
      ]_vars

=============================================================================
